---- MODULE Spec2Model ----
(***************************************************************************)
(* Model of the grid scraper src/src/scrape/scrape_restaurants.py: the two *)
(* on-disk caches (grid cells, place details), the asyncio units of the    *)
(* search phase and of the enrichment phase, the merge into the entity map *)
(* and the final write.  One action is one segment of a coroutine between  *)
(* two suspension points (asyncio runs such a segment atomically).         *)
(***************************************************************************)
EXTENDS Integers, Sequences, FiniteSets, TLC

(***************************************************************************)
(* Bounds of the model.                                                    *)
(***************************************************************************)
\* Number of grid cells generate_grid_cells returns (the source's grid is
\* GRID_SIZE x GRID_SIZE = 250 x 250 filtered by the polygon).
NumCells == 3
\* Number of times main_async is run in sequence over the same cache dirs.
MaxRuns == 2
\* Largest number of cache files of a directory that exist before the first run.
MaxPreexisting == 1
\* Permits of the two semaphores.  The source sets 10 (line 78) and 20
\* (line 79); the model scales both down so that the semaphores saturate
\* with NumCells cells and the entities those cells can return.
MAX_CONCURRENT_GRID_SEARCHES == 2
MAX_CONCURRENT_DETAILS == 2

(***************************************************************************)
(* Program constants.                                                      *)
(***************************************************************************)
max_pages == 3

\* Places per page of a search_nearby response.  The source asks for 20
\* (lines 365, 378); the model scales it down.
max_result_count == 2

\* The most a cell search can return: 60 in the source, three pages of 20.
RESULT_LIMIT == max_pages * max_result_count

\* Cells per side of the lattice.  The source sets 250 (line 34); the model
\* scales it down.
GRID_SIZE == 2

Cells == 1 .. NumCells

\* The bounds of the c-th cell generate_grid_cells returns, in lattice
\* steps from the corner of the bounding box (whose longitudes are
\* negative): row i, column j.
GridCell(c) ==
    LET i == (c - 1) \div GRID_SIZE
        j == (c - 1) % GRID_SIZE
    IN  [lat_low |-> i, lon_low |-> j - GRID_SIZE,
         lat_high |-> i + 1, lon_high |-> j + 1 - GRID_SIZE]

\* (a variant that names the file by the latitude bounds only)
cache_filename_lat_only(cell) ==
    ToString(cell.lat_low) \o "_" \o ToString(cell.lat_high) \o ".json"

\* GridCell.cache_filename
cache_filename(cell) ==
    ToString(cell.lat_low) \o "_" \o ToString(cell.lon_low) \o "_"
        \o ToString(cell.lat_high) \o "_" \o ToString(cell.lon_high) \o ".json"

\* The file of cache/details that belongs to a place id.
details_filename(place_id) == ToString(place_id) \o ".json"

(***************************************************************************)
(* Python values.  A place dict is abstracted to the keys the program      *)
(* reads: id (0: the dict has no 'id' key), websiteUri (web), the other    *)
(* search fields (ver: two dicts of one id with different ver differ in a  *)
(* secondary field) and the detail fields merged in by dict.update (det).  *)
(* A details dict is "{}" (empty), "_empty" (the dict {"_empty": True}),   *)
(* or a non-empty dict of detail fields ("dA", "dB").                      *)
(***************************************************************************)
EmptyDict == "{}"
EmptyMarker == "_empty"
DetailDicts == {"dA", "dB"}
Dicts == {EmptyDict, EmptyMarker} \cup DetailDicts

\* The keys of a details dict: get_place_details_async sets reviews,
\* generativeSummary and reviewSummary, each only when the response has it.
DetailKeys(details) ==
    CASE details = "dA" -> {"reviews", "generativeSummary", "reviewSummary"}
      [] details = "dB" -> {"reviews"}
      [] OTHER -> {}

\* A place dict of _convert_place_to_dict: its id (0: none), the instance
\* of its search fields, whether it has a websiteUri, its reviewSummary
\* (which NEARBY_SEARCH_FIELDS requests too) and its detail fields.
MkPlace(i, v, w) ==
    [id |-> i, ver |-> v, web |-> w, reviewSummary |-> "search", det |-> EmptyDict]

\* Optional[List] / Optional[Dict] values and a raised exception.
None == [tag |-> "None", list |-> <<>>, dict |-> EmptyDict]
PyList(L) == [tag |-> "list", list |-> L, dict |-> EmptyDict]
PyDict(D) == [tag |-> "dict", list |-> <<>>, dict |-> D]
Raised(e) == [tag |-> e, list |-> <<>>, dict |-> EmptyDict]

(***************************************************************************)
(* Cache files.  A file is absent, or holds bytes that are not UTF-8, or   *)
(* text that is not JSON, or a JSON document (a list, an object or any     *)
(* other JSON value).                                                      *)
(***************************************************************************)
JsonList(L) == [type |-> "list", list |-> L, dict |-> EmptyDict]
JsonObject(D) == [type |-> "object", list |-> <<>>, dict |-> D]
JsonScalar == [type |-> "scalar", list |-> <<>>, dict |-> EmptyDict]

NoFile == [kind |-> "absent", doc |-> JsonScalar]
BadUtf8File == [kind |-> "badutf8", doc |-> JsonScalar]
BadJsonFile == [kind |-> "badjson", doc |-> JsonScalar]
JsonFile(j) == [kind |-> "json", doc |-> j]

\* json.load(f) on an existing file opened with encoding='utf-8'.
json_load(file) ==
    CASE file.kind = "badutf8" -> Raised("UnicodeDecodeError")
      [] file.kind = "badjson" -> Raised("JSONDecodeError")
      [] file.doc.type = "list" -> PyList(file.doc.list)
      [] file.doc.type = "object" -> PyDict(file.doc.dict)
      [] OTHER -> [tag |-> "scalar", list |-> <<>>, dict |-> EmptyDict]

\* (a variant that takes an empty list for a missing record)
load_grid_cache_falsy(file) ==
    IF file.kind = "json" /\ file.doc.type = "list" /\ file.doc.list # <<>>
    THEN PyList(file.doc.list)
    ELSE None

\* load_grid_cache: None when the file does not exist or json.load raises
\* JSONDecodeError / IOError; any other exception propagates.
load_grid_cache(file) ==
    IF file.kind = "absent" THEN None
    ELSE LET cached_data == json_load(file) IN
         CASE cached_data.tag = "JSONDecodeError" -> None
           [] cached_data.tag = "UnicodeDecodeError" -> cached_data
           [] cached_data.tag = "list" -> cached_data
           [] OTHER -> PyList(<<>>)

\* (a variant that writes no file for an empty result)
save_grid_cache_nonempty(results) ==
    IF results = <<>> THEN [kind |-> "absent", doc |-> JsonScalar]
    ELSE JsonFile(JsonList(results))

\* save_grid_cache: json.dump(results, f) into the cell's file.
save_grid_cache(results) == JsonFile(JsonList(results))

\* load_details_cache
load_details_cache(file) ==
    IF file.kind = "absent" THEN None
    ELSE LET cached_data == json_load(file) IN
         CASE cached_data.tag = "JSONDecodeError" -> None
           [] cached_data.tag = "UnicodeDecodeError" -> cached_data
           [] cached_data.tag = "dict" ->
                IF cached_data.dict = EmptyMarker THEN PyDict(EmptyDict)
                ELSE cached_data
           [] OTHER -> PyDict(EmptyDict)

\* (a variant that writes no file when there are no details)
save_details_cache_skip_none(details) ==
    IF details.tag = "None" THEN [kind |-> "absent", doc |-> JsonScalar]
    ELSE JsonFile(JsonObject(details.dict))

\* save_details_cache: None is written as the marker {"_empty": True}.
save_details_cache(details) ==
    LET data_to_save == IF details.tag = "None" THEN EmptyMarker ELSE details.dict
    IN  JsonFile(JsonObject(data_to_save))

(***************************************************************************)
(* The provider.  search_nearby answers a request for page p of cell c     *)
(* with that page's places and possibly a continuation token, or fails     *)
(* with a rate-limit error (429 / RESOURCE_EXHAUSTED) or another error.    *)
(* Cells 1 and 2 overlap: both hold place 1, in two instances.  Place 4    *)
(* has no websiteUri.  Cell 3 and every further cell hold no place.        *)
(***************************************************************************)
\* The ids of the places with a websiteUri: the keys cache/details can get.
Ids == {1, 2, 3}

ProviderPage(c, p) ==
    CASE c = 1 /\ p = 1 -> <<MkPlace(1, 1, TRUE), MkPlace(4, 1, FALSE)>>
      [] c = 1 /\ p = 2 -> <<MkPlace(2, 1, TRUE)>>
      [] c = 2 /\ p = 1 -> <<MkPlace(1, 2, TRUE), MkPlace(3, 1, TRUE)>>
      [] OTHER -> <<>>

SearchOutcomes == {"ok_token", "ok_last", "429", "error"}

\* get_place answers with the place's detail fields, with none of them,
\* or fails with a rate-limit error or another error.
ProviderDetails(i) == IF i = 1 THEN "dA" ELSE "dB"

DetailOutcomes == {"details", "nothing", "429", "error"}

(***************************************************************************)
(* State.                                                                  *)
(***************************************************************************)
VARIABLES
    run,              \* number of the current run of main_async
    mainPc,           \* position of main_async
    gridCache,        \* cache/grid: cell -> file
    detailsCache,     \* cache/details: place id -> file
    outputFile,       \* OUTPUT_FILE
    semaphore,        \* free permits of the semaphore of the current phase
    cache_hits,       \* counters of the as_completed loop of the current phase
    api_calls,
    limit_hits,
    enriched_count,
    cellPc,           \* position of each process_cell_async unit
    cached_results,   \* process_cell_async: value read from the grid cache
    all_results,      \* search_by_type_async: results gathered so far
    page_num,         \* search_by_type_async: page counter
    next_page_token,  \* search_by_type_async: page whose token is held, 0: None
    cellRet,          \* return value of each process_cell_async unit
    results_list,     \* scrape_grid_cells_async: results in completion order
    all_restaurants,  \* the entity map: place id -> place dict
    key_order,        \* the entity map's keys in insertion order
    enrichPc,         \* position of each enrich_restaurant_async unit
    cached_details,   \* enrich_restaurant_async: value read from the details cache
    enrichRet,        \* return value of each enrich_restaurant_async unit
    searchReqs,       \* history: search_nearby requests each cell unit has sent
    searchOutcome,    \* history: the provider's last answer to each cell unit
    gridWrites,       \* history: save_grid_cache calls of each cell unit
    getReqs,          \* history: get_place requests each enrichment unit has sent
    getOutcome,       \* history: the provider's answer to each enrichment unit
    detailsWrites,    \* history: save_details_cache calls of each enrichment unit
    lastSavedList,    \* history: the list last passed to save_grid_cache, per cell
    lastSavedDict,    \* history: the value last passed to save_details_cache, per id
    prevMap,          \* history: the entity map at the end of the previous run
    env,              \* the process environment: API key, boundary source
    call              \* a call of a function of the module: arguments, result

diskVars == <<gridCache, detailsCache, outputFile>>
loopVars == <<cache_hits, api_calls, limit_hits, enriched_count, results_list>>
cellLocals == <<cached_results, all_results, page_num, next_page_token>>
cellHistory == <<searchReqs, searchOutcome, gridWrites, lastSavedList>>
cellVars == <<cellPc, cellLocals, cellRet, cellHistory>>
mapVars == <<all_restaurants, key_order>>
enrichHistory == <<getReqs, getOutcome, detailsWrites, lastSavedDict>>
enrichVars == <<enrichPc, cached_details, enrichRet, enrichHistory>>

auxVars == <<env, call>>

vars == <<run, mainPc, diskVars, semaphore, loopVars, cellVars, mapVars,
          enrichVars, prevMap, auxVars>>

\* The environment of a run that can start: GOOGLE_PLACES_API_KEY is set
\* and load_manhattan_boundary can deliver the polygon.
GoodEnv == [GOOGLE_PLACES_API_KEY |-> "key", boundary |-> "available"]

\* No function call is under observation.
NoCall == [fn |-> "none"]

NoRet == [results |-> <<>>, from_cache |-> FALSE, made_api_call |-> FALSE,
          returned |-> FALSE]
\* (a variant that returns both flags set)
RetBothFlags(r, fc, api) == [results |-> r, from_cache |-> TRUE,
                             made_api_call |-> TRUE, returned |-> TRUE]
Ret(r, fc, api) == [results |-> r, from_cache |-> fc, made_api_call |-> api,
                    returned |-> TRUE]

NoOutput == [written |-> FALSE, total_count |-> 0, restaurants |-> <<>>]

\* Files that may lie in cache/grid before the first run.
\* A list written before the websiteUri filter (or by the script variant,
\* which shares cache/grid): it holds entities without a websiteUri, one of
\* them a later instance of place 2, and a dict without an id.
OldCellList ==
    <<MkPlace(2, 2, TRUE), MkPlace(4, 1, FALSE), MkPlace(0, 1, TRUE),
      MkPlace(2, 3, FALSE)>>
InitLists == {<<>>, OldCellList}
InitGridFiles ==
    {BadUtf8File, BadJsonFile, JsonFile(JsonScalar)}
        \cup {JsonFile(JsonList(L)) : L \in InitLists}

\* Files that may lie in cache/details before the first run.
InitDetailFiles ==
    {BadUtf8File, BadJsonFile, JsonFile(JsonScalar),
     JsonFile(JsonObject(EmptyMarker)), JsonFile(JsonObject(EmptyDict)),
     JsonFile(JsonObject("dB"))}

FilesIn(dir) == {k \in DOMAIN dir : dir[k] # NoFile}

\* The in-memory state at the start of main_async: the units of the search
\* phase are created, none has run.
FreshRun ==
    /\ mainPc = "search"
    /\ semaphore = MAX_CONCURRENT_GRID_SEARCHES
    /\ cache_hits = 0
    /\ api_calls = 0
    /\ limit_hits = 0
    /\ enriched_count = 0
    /\ results_list = <<>>
    /\ cellPc = [c \in Cells |-> "waiting"]
    /\ cached_results = [c \in Cells |-> None]
    /\ all_results = [c \in Cells |-> <<>>]
    /\ page_num = [c \in Cells |-> 1]
    /\ next_page_token = [c \in Cells |-> 0]
    /\ cellRet = [c \in Cells |-> NoRet]
    /\ searchReqs = [c \in Cells |-> 0]
    /\ searchOutcome = [c \in Cells |-> "none"]
    /\ gridWrites = [c \in Cells |-> 0]
    /\ all_restaurants = <<>>
    /\ key_order = <<>>
    /\ enrichPc = [i \in Ids |-> "none"]
    /\ cached_details = [i \in Ids |-> None]
    /\ enrichRet = [i \in Ids |-> NoRet]
    /\ getReqs = [i \in Ids |-> 0]
    /\ getOutcome = [i \in Ids |-> "none"]
    /\ detailsWrites = [i \in Ids |-> 0]

InitHistory ==
    /\ run = 1
    /\ env = GoodEnv
    /\ call = NoCall
    /\ outputFile = NoOutput
    /\ lastSavedList = [c \in Cells |-> Raised("unsaved")]
    /\ lastSavedDict = [i \in Ids |-> Raised("unsaved")]
    /\ prevMap = <<>>

\* The first run starts with empty cache directories.
Init ==
    /\ InitHistory
    /\ gridCache = [c \in Cells |-> NoFile]
    /\ detailsCache = [i \in Ids |-> NoFile]
    /\ FreshRun

\* The first run finds files in the cache directories, at most
\* MaxPreexisting of them, written by an earlier process or by hand.
InitDisk ==
    /\ InitHistory
    /\ gridCache \in [Cells -> {NoFile} \cup InitGridFiles]
    /\ detailsCache \in [Ids -> {NoFile} \cup InitDetailFiles]
    /\ Cardinality(FilesIn(gridCache)) + Cardinality(FilesIn(detailsCache))
          <= MaxPreexisting
    /\ FreshRun

\* Files of cache/grid that hold valid JSON other than a list, and files of
\* cache/details that hold valid JSON other than an object.
NonListFiles == {JsonFile(JsonScalar), JsonFile(JsonObject("dB"))}

NonDictFiles == {JsonFile(JsonScalar), JsonFile(JsonList(<<>>))}

\* The first run finds at most one such file in each cache directory.
InitForeign ==
    /\ InitHistory
    /\ gridCache \in [Cells -> {NoFile} \cup NonListFiles]
    /\ detailsCache \in [Ids -> {NoFile} \cup NonDictFiles]
    /\ Cardinality(FilesIn(gridCache)) <= 1
    /\ Cardinality(FilesIn(detailsCache)) <= 1
    /\ FreshRun

\* The first run finds the record of cell 3, written by an earlier version,
\* and the details of place 3.
InitSeeded ==
    /\ InitHistory
    /\ gridCache = [c \in Cells |->
                      IF c = 3 THEN JsonFile(JsonList(OldCellList)) ELSE NoFile]
    /\ detailsCache = [i \in Ids |->
                         IF i = 3 THEN JsonFile(JsonObject("dB")) ELSE NoFile]
    /\ FreshRun

(***************************************************************************)
(* Phase 1: process_cell_async and search_by_type_async.                   *)
(***************************************************************************)
\* (a variant in which a sleeping unit gives its permit back)
AwaitReleasesPermit(permits) == permits + 1

\* await asyncio.sleep(SLEEP_TIME) runs inside the caller's
\* async with semaphore block: the permits are as they were.
AwaitInsideBlock(permits) == permits

\* async with semaphore: a unit enters when a permit is free.
AcquireUnbounded(permits) == TRUE
CanAcquire(permits) == permits > 0

\* process_cell_async: if cached_results is not None
GridCacheHitIfNonEmpty(cached) == cached.tag # "None" /\ cached.list # <<>>
GridCacheHit(cached) == cached.tag # "None"

\* enrich_restaurant_async: if cached_details is not None
DetailsCacheHitIfNonEmpty(cached) == cached.tag # "None" /\ cached.dict # EmptyDict
DetailsCacheHit(cached) == cached.tag # "None"

\* (a variant that keeps every place of the response)
WithWebsiteUnfiltered(places) == places

\* for place in response.places: keep the dicts with a websiteUri.
RECURSIVE WithWebsite(_)
WithWebsite(places) ==
    IF places = <<>> THEN <<>>
    ELSE IF Head(places).web
         THEN <<Head(places)>> \o WithWebsite(Tail(places))
         ELSE WithWebsite(Tail(places))

\* if len(results) >= 60
HitsLimit(results) == Len(results) >= RESULT_LIMIT

\* The unit returns (results, from_cache, made_api_call) and leaves its
\* async-with block; the as_completed loop of scrape_grid_cells_async
\* receives the value and counts it.
CellReturns(c, results, from_cache, made_api_call, permits) ==
    /\ cellPc' = [cellPc EXCEPT ![c] = "done"]
    /\ cellRet' = [cellRet EXCEPT ![c] = Ret(results, from_cache, made_api_call)]
    /\ semaphore' = permits + 1
    /\ cache_hits' = IF from_cache THEN cache_hits + 1 ELSE cache_hits
    /\ api_calls' = IF made_api_call THEN api_calls + 1 ELSE api_calls
    /\ limit_hits' = IF HitsLimit(results) THEN limit_hits + 1 ELSE limit_hits
    /\ results_list' = Append(results_list, results)
    /\ UNCHANGED enriched_count

\* search_by_type_async has returned results: process_cell_async saves them
\* and returns.
SearchReturns(c, results) ==
    /\ gridCache' = [gridCache EXCEPT ![c] = save_grid_cache(results)]
    /\ gridWrites' = [gridWrites EXCEPT ![c] = @ + 1]
    /\ lastSavedList' = [lastSavedList EXCEPT ![c] = PyList(results)]
    /\ CellReturns(c, results, FALSE, TRUE, semaphore)

\* An exception leaves a unit: the await in the as_completed loop raises it,
\* main_async ends with it and asyncio.run cancels the pending units, which
\* leave their async-with blocks without writing anything.
Cancelled(pcs, k) ==
    [u \in DOMAIN pcs |->
        IF u = k THEN "raised"
        ELSE IF pcs[u] \in {"done", "none"} THEN pcs[u] ELSE "cancelled"]

\* The unit acquires the semaphore, reads the cache and, on a miss, sends
\* the first search_nearby request.
EnterCell(c) ==
    /\ mainPc = "search"
    /\ cellPc[c] = "waiting"
    /\ CanAcquire(semaphore)
    /\ LET cached == load_grid_cache(gridCache[c]) IN
       /\ cached_results' = [cached_results EXCEPT ![c] = cached]
       /\ CASE cached.tag = "UnicodeDecodeError" ->
                 /\ mainPc' = "aborted"
                 /\ cellPc' = Cancelled(cellPc, c)
                 /\ semaphore' = MAX_CONCURRENT_GRID_SEARCHES
                 /\ UNCHANGED <<gridCache, searchReqs, gridWrites, lastSavedList,
                                cellRet, loopVars>>
            [] cached.tag # "UnicodeDecodeError" /\ GridCacheHit(cached) ->
                 /\ CellReturns(c, cached.list, TRUE, FALSE, semaphore - 1)
                 /\ UNCHANGED <<mainPc, gridCache, searchReqs, gridWrites,
                                lastSavedList>>
            [] OTHER ->
                 /\ cellPc' = [cellPc EXCEPT ![c] = "request"]
                 /\ semaphore' = semaphore - 1
                 /\ searchReqs' = [searchReqs EXCEPT ![c] = @ + 1]
                 /\ UNCHANGED <<mainPc, gridCache, gridWrites, lastSavedList,
                                cellRet, loopVars>>
    /\ UNCHANGED <<run, detailsCache, outputFile, all_results, page_num,
                   next_page_token, searchOutcome, mapVars, enrichVars, prevMap>>
    /\ UNCHANGED auxVars

\* The provider answers the unit's pending search_nearby request.
SearchResponse(c, outcome) ==
    /\ mainPc = "search"
    /\ cellPc[c] = "request"
    /\ searchOutcome' = [searchOutcome EXCEPT ![c] = outcome]
    /\ LET page_results == WithWebsite(ProviderPage(c, page_num[c]))
           extended == all_results[c] \o page_results
       IN
       CASE outcome = "ok_token" ->
              /\ all_results' = [all_results EXCEPT ![c] = extended]
              /\ next_page_token' = [next_page_token EXCEPT ![c] = page_num[c]]
              /\ page_num' = [page_num EXCEPT ![c] = @ + 1]
              /\ cellPc' = [cellPc EXCEPT ![c] = "page_sleep"]
              /\ UNCHANGED <<gridCache, gridWrites, lastSavedList, cellRet,
                             semaphore, loopVars>>
         [] outcome = "ok_last" ->
              /\ all_results' = [all_results EXCEPT ![c] = extended]
              /\ next_page_token' = [next_page_token EXCEPT ![c] = 0]
              /\ SearchReturns(c, extended)
              /\ UNCHANGED page_num
         [] outcome = "429" ->
              /\ cellPc' = [cellPc EXCEPT ![c] = "cooldown"]
              /\ semaphore' = AwaitInsideBlock(semaphore)
              /\ UNCHANGED <<all_results, next_page_token, page_num, gridCache,
                             gridWrites, lastSavedList, cellRet, loopVars>>
         [] OTHER ->
              /\ SearchReturns(c, all_results[c])
              /\ UNCHANGED <<all_results, next_page_token, page_num>>
    /\ UNCHANGED <<run, mainPc, detailsCache, outputFile, cached_results,
                   searchReqs, mapVars, enrichVars, prevMap>>
    /\ UNCHANGED auxVars

\* (a variant without the page limit)
MorePagesUnbounded(page) == TRUE

\* while page_num <= max_pages
MorePages(page) == page <= max_pages

\* asyncio.sleep(2) after a page with a token is over: the while condition
\* is tested and the next request, carrying the token, is sent.
PageSleepDone(c) ==
    /\ mainPc = "search"
    /\ cellPc[c] = "page_sleep"
    /\ IF MorePages(page_num[c])
       THEN /\ cellPc' = [cellPc EXCEPT ![c] = "request"]
            /\ searchReqs' = [searchReqs EXCEPT ![c] = @ + 1]
            /\ UNCHANGED <<gridCache, gridWrites, lastSavedList, cellRet,
                           semaphore, loopVars>>
       ELSE /\ SearchReturns(c, all_results[c])
            /\ UNCHANGED searchReqs
    /\ UNCHANGED <<run, mainPc, detailsCache, outputFile, cellLocals,
                   searchOutcome, mapVars, enrichVars, prevMap>>
    /\ UNCHANGED auxVars

\* asyncio.sleep(SLEEP_TIME) after a rate-limit error is over.
CooldownDone(c) ==
    /\ mainPc = "search"
    /\ cellPc[c] = "cooldown"
    /\ SearchReturns(c, all_results[c])
    /\ UNCHANGED <<run, mainPc, detailsCache, outputFile, cellLocals,
                   searchReqs, searchOutcome, mapVars, enrichVars, prevMap>>
    /\ UNCHANGED auxVars

\* What a failed open(cache_file, 'w') / json.dump leaves behind: the file
\* as it was, or a truncated document.
AfterFailedWrite(file) == {file, BadJsonFile}

\* save_grid_cache raises OSError (disk full, directory not writable) when
\* process_cell_async calls it after search_by_type_async has returned:
\* nothing catches it, the unit ends with the exception and the await in
\* the as_completed loop raises it.
SaveGridCacheRaises(c) ==
    /\ mainPc = "search"
    /\ \/ /\ cellPc[c] = "request"
          /\ \E outcome \in {"ok_last", "error"} :
                searchOutcome' = [searchOutcome EXCEPT ![c] = outcome]
       \/ /\ cellPc[c] = "page_sleep" /\ ~MorePages(page_num[c])
          /\ UNCHANGED searchOutcome
       \/ /\ cellPc[c] = "cooldown"
          /\ UNCHANGED searchOutcome
    /\ \E left \in AfterFailedWrite(gridCache[c]) :
          gridCache' = [gridCache EXCEPT ![c] = left]
    /\ mainPc' = "aborted"
    /\ cellPc' = Cancelled(cellPc, c)
    /\ semaphore' = MAX_CONCURRENT_GRID_SEARCHES
    /\ UNCHANGED <<run, detailsCache, outputFile, loopVars, cellLocals, cellRet,
                   searchReqs, gridWrites, lastSavedList, mapVars, enrichVars,
                   prevMap>>
    /\ UNCHANGED auxVars

(***************************************************************************)
(* The merge of scrape_grid_cells_async (after the as_completed loop).     *)
(***************************************************************************)
\* (a variant in which the first instance of an id is kept)
InsertFirstWins(map, result) ==
    IF result.id # 0 /\ result.web /\ result.id \notin DOMAIN map
    THEN [k \in DOMAIN map \cup {result.id} |->
            IF k = result.id THEN result ELSE map[k]]
    ELSE map

\* all_restaurants[result['id']] = result, for a result with an id and a
\* websiteUri.
Insert(map, result) ==
    IF result.id # 0 /\ result.web
    THEN [k \in DOMAIN map \cup {result.id} |->
            IF k = result.id THEN result ELSE map[k]]
    ELSE map

InsertKey(keys, result) ==
    IF result.id # 0 /\ result.web /\ \A n \in DOMAIN keys : keys[n] # result.id
    THEN Append(keys, result.id)
    ELSE keys

\* for results in results_list: for result in results: ...
RECURSIVE MergeResults(_, _)
MergeResults(map, results) ==
    IF results = <<>> THEN map
    ELSE MergeResults(Insert(map, Head(results)), Tail(results))

RECURSIVE MergeKeys(_, _)
MergeKeys(keys, results) ==
    IF results = <<>> THEN keys
    ELSE MergeKeys(InsertKey(keys, Head(results)), Tail(results))

RECURSIVE Flatten(_)
Flatten(lists) ==
    IF lists = <<>> THEN <<>> ELSE Head(lists) \o Flatten(Tail(lists))

\* (a variant in which the loop ends on the first completed unit)
AnyCompleted(pcs) == \E u \in DOMAIN pcs : pcs[u] = "done"

\* The as_completed loop has received the value of every unit it was given.
AllCompleted(pcs) == \A u \in DOMAIN pcs : pcs[u] \in {"done", "none"}

\* Every cell unit has completed: scrape_grid_cells_async merges and returns,
\* and enrich_restaurants_async creates one unit per key of the map.
Merge ==
    /\ mainPc = "search"
    /\ AllCompleted(cellPc)
    /\ LET merged == MergeResults(<<>>, Flatten(results_list)) IN
       /\ all_restaurants' = merged
       /\ key_order' = MergeKeys(<<>>, Flatten(results_list))
       /\ enrichPc' = [i \in Ids |-> IF i \in DOMAIN merged THEN "waiting" ELSE "none"]
    /\ mainPc' = "enrich"
    /\ semaphore' = MAX_CONCURRENT_DETAILS
    /\ cache_hits' = 0
    /\ api_calls' = 0
    /\ limit_hits' = 0
    /\ results_list' = <<>>
    /\ cellPc' = [c \in Cells |-> "gone"]
    /\ cached_results' = [c \in Cells |-> None]
    /\ all_results' = [c \in Cells |-> <<>>]
    /\ page_num' = [c \in Cells |-> 1]
    /\ next_page_token' = [c \in Cells |-> 0]
    /\ cellRet' = [c \in Cells |-> NoRet]
    /\ searchReqs' = [c \in Cells |-> 0]
    /\ searchOutcome' = [c \in Cells |-> "none"]
    /\ gridWrites' = [c \in Cells |-> 0]
    /\ UNCHANGED <<run, diskVars, enriched_count, lastSavedList, cached_details,
                   enrichRet, enrichHistory, prevMap>>
    /\ UNCHANGED auxVars

(***************************************************************************)
(* Phase 2: enrich_restaurant_async and get_place_details_async.           *)
(***************************************************************************)
\* restaurant.update(details): every key of details is set, a reviewSummary
\* among them replaces the one of the search step.
Update(restaurant, details) ==
    [restaurant EXCEPT !.det = details,
                       !.reviewSummary =
                            IF "reviewSummary" \in DetailKeys(details)
                            THEN "details" ELSE @]

\* The unit returns (from_cache, made_api_call) and leaves its async-with
\* block; the as_completed loop of enrich_restaurants_async counts it.
EnrichReturns(i, from_cache, made_api_call, permits) ==
    /\ enrichPc' = [enrichPc EXCEPT ![i] = "done"]
    /\ enrichRet' = [enrichRet EXCEPT ![i] = Ret(<<>>, from_cache, made_api_call)]
    /\ semaphore' = permits + 1
    /\ cache_hits' = IF from_cache THEN cache_hits + 1 ELSE cache_hits
    /\ api_calls' = IF made_api_call THEN api_calls + 1 ELSE api_calls
    /\ enriched_count' = IF made_api_call \/ ~from_cache
                         THEN enriched_count + 1 ELSE enriched_count
    /\ UNCHANGED <<limit_hits, results_list>>

\* save_details_cache(place_id, details) of enrich_restaurant_async.
SaveDetails(i, details) ==
    /\ detailsCache' = [detailsCache EXCEPT ![i] = save_details_cache(details)]
    /\ detailsWrites' = [detailsWrites EXCEPT ![i] = @ + 1]
    /\ lastSavedDict' = [lastSavedDict EXCEPT ![i] = details]

\* The unit acquires the semaphore, reads the cache and, on a miss, sends
\* the get_place request.
EnterEnrich(i) ==
    /\ mainPc = "enrich"
    /\ enrichPc[i] = "waiting"
    /\ CanAcquire(semaphore)
    /\ LET cached == load_details_cache(detailsCache[i]) IN
       /\ cached_details' = [cached_details EXCEPT ![i] = cached]
       /\ CASE cached.tag = "UnicodeDecodeError" ->
                 /\ mainPc' = "aborted"
                 /\ enrichPc' = Cancelled(enrichPc, i)
                 /\ semaphore' = MAX_CONCURRENT_DETAILS
                 /\ UNCHANGED <<all_restaurants, getReqs, enrichRet, loopVars>>
            [] cached.tag # "UnicodeDecodeError" /\ DetailsCacheHit(cached) ->
                 /\ all_restaurants' =
                        IF cached.dict # EmptyDict
                        THEN [all_restaurants EXCEPT ![i] = Update(@, cached.dict)]
                        ELSE all_restaurants
                 /\ EnrichReturns(i, TRUE, FALSE, semaphore - 1)
                 /\ UNCHANGED <<mainPc, getReqs>>
            [] OTHER ->
                 /\ enrichPc' = [enrichPc EXCEPT ![i] = "request"]
                 /\ semaphore' = semaphore - 1
                 /\ getReqs' = [getReqs EXCEPT ![i] = @ + 1]
                 /\ UNCHANGED <<mainPc, all_restaurants, enrichRet, loopVars>>
    /\ UNCHANGED <<run, diskVars, cellVars, key_order, getOutcome, detailsWrites,
                   lastSavedDict, prevMap>>
    /\ UNCHANGED auxVars

\* The provider answers the unit's pending get_place request.
DetailsResponse(i, outcome) ==
    /\ mainPc = "enrich"
    /\ enrichPc[i] = "request"
    /\ getOutcome' = [getOutcome EXCEPT ![i] = outcome]
    /\ CASE outcome = "details" ->
              LET details == PyDict(ProviderDetails(i)) IN
              /\ SaveDetails(i, details)
              /\ all_restaurants' = [all_restaurants EXCEPT ![i] = Update(@, details.dict)]
              /\ enrichPc' = [enrichPc EXCEPT ![i] = "details_sleep"]
              /\ UNCHANGED <<semaphore, enrichRet, loopVars>>
         [] outcome = "429" ->
              /\ enrichPc' = [enrichPc EXCEPT ![i] = "cooldown"]
              /\ semaphore' = AwaitInsideBlock(semaphore)
              /\ UNCHANGED <<detailsCache, detailsWrites, lastSavedDict,
                             all_restaurants, enrichRet, loopVars>>
         [] OTHER ->
              /\ SaveDetails(i, None)
              /\ EnrichReturns(i, FALSE, TRUE, semaphore)
              /\ UNCHANGED all_restaurants
    /\ UNCHANGED <<run, mainPc, gridCache, outputFile, cellVars, key_order,
                   cached_details, getReqs, prevMap>>
    /\ UNCHANGED auxVars

\* asyncio.sleep(SLEEP_TIME) in get_place_details_async is over: it returns
\* None.
DetailsCooldownDone(i) ==
    /\ mainPc = "enrich"
    /\ enrichPc[i] = "cooldown"
    /\ SaveDetails(i, None)
    /\ EnrichReturns(i, FALSE, TRUE, semaphore)
    /\ UNCHANGED <<run, mainPc, gridCache, outputFile, cellVars, mapVars,
                   cached_details, getReqs, getOutcome, prevMap>>
    /\ UNCHANGED auxVars

\* asyncio.sleep(DETAILS_DELAY) after a fetch with details is over.
DetailsSleepDone(i) ==
    /\ mainPc = "enrich"
    /\ enrichPc[i] = "details_sleep"
    /\ EnrichReturns(i, FALSE, TRUE, semaphore)
    /\ UNCHANGED <<run, mainPc, diskVars, cellVars, mapVars, cached_details,
                   getReqs, getOutcome, detailsWrites, lastSavedDict, prevMap>>
    /\ UNCHANGED auxVars

\* save_details_cache raises OSError when enrich_restaurant_async calls it
\* after get_place_details_async has returned.
SaveDetailsCacheRaises(i) ==
    /\ mainPc = "enrich"
    /\ \/ /\ enrichPc[i] = "request"
          /\ \E outcome \in {"details", "nothing", "error"} :
                getOutcome' = [getOutcome EXCEPT ![i] = outcome]
       \/ /\ enrichPc[i] = "cooldown"
          /\ UNCHANGED getOutcome
    /\ \E left \in AfterFailedWrite(detailsCache[i]) :
          detailsCache' = [detailsCache EXCEPT ![i] = left]
    /\ mainPc' = "aborted"
    /\ enrichPc' = Cancelled(enrichPc, i)
    /\ semaphore' = MAX_CONCURRENT_DETAILS
    /\ UNCHANGED <<run, gridCache, outputFile, loopVars, cellVars, mapVars,
                   cached_details, enrichRet, getReqs, detailsWrites,
                   lastSavedDict, prevMap>>
    /\ UNCHANGED auxVars

(***************************************************************************)
(* save_output and the end of main_async.                                  *)
(***************************************************************************)
\* list(restaurants.values())
RECURSIVE Values(_, _)
Values(map, keys) ==
    IF keys = <<>> THEN <<>> ELSE <<map[Head(keys)]>> \o Values(map, Tail(keys))

SaveOutput ==
    /\ mainPc = "enrich"
    /\ AllCompleted(enrichPc)
    /\ outputFile' = [written |-> TRUE,
                      total_count |-> Cardinality(DOMAIN all_restaurants),
                      restaurants |-> Values(all_restaurants, key_order)]
    /\ mainPc' = "done"
    /\ UNCHANGED <<run, gridCache, detailsCache, semaphore, loopVars, cellVars,
                   mapVars, enrichVars, prevMap>>
    /\ UNCHANGED auxVars

\* The process has ended; main_async is run again over the same cache
\* directories.
Rerun ==
    /\ mainPc = "done"
    /\ run < MaxRuns
    /\ run' = run + 1
    /\ prevMap' = all_restaurants
    /\ mainPc' = "search"
    /\ semaphore' = MAX_CONCURRENT_GRID_SEARCHES
    /\ cache_hits' = 0
    /\ api_calls' = 0
    /\ limit_hits' = 0
    /\ enriched_count' = 0
    /\ results_list' = <<>>
    /\ cellPc' = [c \in Cells |-> "waiting"]
    /\ all_restaurants' = <<>>
    /\ key_order' = <<>>
    /\ enrichPc' = [i \in Ids |-> "none"]
    /\ cached_details' = [i \in Ids |-> None]
    /\ enrichRet' = [i \in Ids |-> NoRet]
    /\ getReqs' = [i \in Ids |-> 0]
    /\ getOutcome' = [i \in Ids |-> "none"]
    /\ detailsWrites' = [i \in Ids |-> 0]
    /\ UNCHANGED <<diskVars, cellLocals, cellRet, cellHistory, lastSavedDict>>
    /\ UNCHANGED auxVars

\* The process is interrupted (SIGINT, kill) during a phase: asyncio.run
\* cancels main_async and the pending units; nothing more is written.
Interrupt ==
    /\ mainPc \in {"search", "enrich"}
    /\ mainPc' = "interrupted"
    /\ IF mainPc = "search"
       THEN /\ cellPc' = Cancelled(cellPc, 0)
            /\ semaphore' = MAX_CONCURRENT_GRID_SEARCHES
            /\ UNCHANGED enrichPc
       ELSE /\ enrichPc' = Cancelled(enrichPc, 0)
            /\ semaphore' = MAX_CONCURRENT_DETAILS
            /\ UNCHANGED cellPc
    /\ UNCHANGED <<run, diskVars, loopVars, cellLocals, cellRet, cellHistory,
                   mapVars, cached_details, enrichRet, enrichHistory, prevMap>>
    /\ UNCHANGED auxVars

\* main_async is run again after a run that was interrupted or that ended
\* with an exception: the cache directories are as that run left them.
Resume ==
    /\ mainPc \in {"aborted", "interrupted"}
    /\ run < MaxRuns
    /\ run' = run + 1
    /\ prevMap' = <<>>
    /\ mainPc' = "search"
    /\ semaphore' = MAX_CONCURRENT_GRID_SEARCHES
    /\ cache_hits' = 0
    /\ api_calls' = 0
    /\ limit_hits' = 0
    /\ enriched_count' = 0
    /\ results_list' = <<>>
    /\ cellPc' = [c \in Cells |-> "waiting"]
    /\ cached_results' = [c \in Cells |-> None]
    /\ all_results' = [c \in Cells |-> <<>>]
    /\ page_num' = [c \in Cells |-> 1]
    /\ next_page_token' = [c \in Cells |-> 0]
    /\ cellRet' = [c \in Cells |-> NoRet]
    /\ searchReqs' = [c \in Cells |-> 0]
    /\ searchOutcome' = [c \in Cells |-> "none"]
    /\ gridWrites' = [c \in Cells |-> 0]
    /\ all_restaurants' = <<>>
    /\ key_order' = <<>>
    /\ enrichPc' = [i \in Ids |-> "none"]
    /\ cached_details' = [i \in Ids |-> None]
    /\ enrichRet' = [i \in Ids |-> NoRet]
    /\ getReqs' = [i \in Ids |-> 0]
    /\ getOutcome' = [i \in Ids |-> "none"]
    /\ detailsWrites' = [i \in Ids |-> 0]
    /\ UNCHANGED <<diskVars, lastSavedList, lastSavedDict>>
    /\ UNCHANGED auxVars

(***************************************************************************)
(* The cache functions on their own: save_grid_cache and                   *)
(* save_details_cache called with any value of their parameter types.      *)
(***************************************************************************)
SaveLists ==
    {<<>>, <<MkPlace(1, 1, TRUE)>>, <<MkPlace(4, 1, FALSE), MkPlace(2, 1, TRUE)>>}

SaveDicts == {None} \cup {PyDict(D) : D \in Dicts}

CallSaveGridCache(c, results) ==
    /\ gridCache' = [gridCache EXCEPT ![c] = save_grid_cache(results)]
    /\ lastSavedList' = [lastSavedList EXCEPT ![c] = PyList(results)]
    /\ UNCHANGED <<run, mainPc, detailsCache, outputFile, semaphore, loopVars,
                   cellPc, cellLocals, cellRet, searchReqs, searchOutcome,
                   gridWrites, mapVars, enrichVars, prevMap>>
    /\ UNCHANGED auxVars

CallSaveDetailsCache(i, details) ==
    /\ detailsCache' = [detailsCache EXCEPT ![i] = save_details_cache(details)]
    /\ lastSavedDict' = [lastSavedDict EXCEPT ![i] = details]
    /\ UNCHANGED <<run, mainPc, gridCache, outputFile, semaphore, loopVars,
                   cellVars, mapVars, enrichPc, cached_details, enrichRet,
                   getReqs, getOutcome, detailsWrites, prevMap>>
    /\ UNCHANGED auxVars

NextCache ==
    \/ \E c \in Cells, results \in SaveLists : CallSaveGridCache(c, results)
    \/ \E i \in Ids, details \in SaveDicts : CallSaveDetailsCache(i, details)

(***************************************************************************)
(* Startup: main_async calls load_env, creates the cache directories and   *)
(* the client, and scrape_grid_cells_async calls generate_grid_cells       *)
(* before it creates any unit.  The first point test of the first cell     *)
(* asks for the polygon.                                                   *)
(***************************************************************************)
Envs == [GOOGLE_PLACES_API_KEY : {"key", ""},
         boundary : {"available", "unavailable"}]

\* A load_env that returns whatever the environment holds.
load_env_unchecked(e) == PyDict(e.GOOGLE_PLACES_API_KEY)

\* load_env: the key, or ValueError when the variable is unset or empty.
load_env(e) ==
    IF e.GOOGLE_PLACES_API_KEY = ""
    THEN Raised("ValueError")
    ELSE PyDict(e.GOOGLE_PLACES_API_KEY)

\* _get_manhattan_polygon: the loaded polygon; when load_manhattan_boundary
\* returns None or raises, the global MANHATTAN_POLYGON, which is None.
get_manhattan_polygon(e) ==
    IF e.boundary = "available" THEN PyDict("polygon") ELSE None

\* point_in_manhattan: polygon.contains on None raises AttributeError.
point_in_manhattan_loaded(e) ==
    IF get_manhattan_polygon(e) = None
    THEN Raised("AttributeError")
    ELSE PyDict("bool")

\* The units of phase 1 do not exist before generate_grid_cells returns.
NotStarted ==
    /\ mainPc = "start"
    /\ cellPc = [c \in Cells |-> "none"]

\* The process before main_async has done anything: empty cache
\* directories, no output file, no unit.
NoRun ==
    /\ run = 1
    /\ outputFile = NoOutput
    /\ lastSavedList = [c \in Cells |-> Raised("unsaved")]
    /\ lastSavedDict = [i \in Ids |-> Raised("unsaved")]
    /\ prevMap = <<>>
    /\ gridCache = [c \in Cells |-> NoFile]
    /\ detailsCache = [i \in Ids |-> NoFile]
    /\ NotStarted
    /\ semaphore = MAX_CONCURRENT_GRID_SEARCHES
    /\ cache_hits = 0
    /\ api_calls = 0
    /\ limit_hits = 0
    /\ enriched_count = 0
    /\ results_list = <<>>
    /\ cached_results = [c \in Cells |-> None]
    /\ all_results = [c \in Cells |-> <<>>]
    /\ page_num = [c \in Cells |-> 1]
    /\ next_page_token = [c \in Cells |-> 0]
    /\ cellRet = [c \in Cells |-> NoRet]
    /\ searchReqs = [c \in Cells |-> 0]
    /\ searchOutcome = [c \in Cells |-> "none"]
    /\ gridWrites = [c \in Cells |-> 0]
    /\ all_restaurants = <<>>
    /\ key_order = <<>>
    /\ enrichPc = [i \in Ids |-> "none"]
    /\ cached_details = [i \in Ids |-> None]
    /\ enrichRet = [i \in Ids |-> NoRet]
    /\ getReqs = [i \in Ids |-> 0]
    /\ getOutcome = [i \in Ids |-> "none"]
    /\ detailsWrites = [i \in Ids |-> 0]

InitStartup ==
    /\ env \in Envs
    /\ call = NoCall
    /\ NoRun

\* main_async up to the creation of the units of phase 1.
Startup ==
    /\ mainPc = "start"
    /\ IF \/ load_env(env).tag = "ValueError"
          \/ point_in_manhattan_loaded(env).tag = "AttributeError"
       THEN /\ mainPc' = "aborted"
            /\ UNCHANGED cellPc
       ELSE /\ mainPc' = "search"
            /\ cellPc' = [c \in Cells |-> "waiting"]
    /\ UNCHANGED <<run, diskVars, semaphore, loopVars, cellLocals, cellRet,
                   cellHistory, mapVars, enrichVars, prevMap, auxVars>>

(***************************************************************************)
(* The grid.  Lengths are in half steps of the lattice, so that the centre *)
(* of a cell has integer coordinates; a point is <<lon, lat>> as shapely   *)
(* takes it.  Polygons are convex, given by their vertices in order.       *)
(***************************************************************************)
MaxN == 2

\* MANHATTAN_BOUNDS in steps of a lattice of resolution N: the longitudes
\* are negative, as those of the source are.
MANHATTAN_BOUNDS(N) == [lat_low |-> 0, lat_high |-> N, lon_low |-> 0 - N, lon_high |-> 0]

\* The cell of row i and column j: lat_low = bounds.lat_low + i * lat_step.
LatticeCell(i, j, N) ==
    [lat_low  |-> MANHATTAN_BOUNDS(N).lat_low + i,
     lon_low  |-> MANHATTAN_BOUNDS(N).lon_low + j,
     lat_high |-> MANHATTAN_BOUNDS(N).lat_low + (i + 1),
     lon_high |-> MANHATTAN_BOUNDS(N).lon_low + (j + 1)]

Cross(o, a, b) == (a[1] - o[1]) * (b[2] - o[2]) - (a[2] - o[2]) * (b[1] - o[1])

Edges(P) == {<<P[k], P[(k % Len(P)) + 1]>> : k \in 1 .. Len(P)}

Sides(P, p) == {Cross(e[1], e[2], p) : e \in Edges(P)}

\* shapely: the point lies in the interior of the polygon.
contains(P, p) ==
    \/ \A s \in Sides(P, p) : s > 0
    \/ \A s \in Sides(P, p) : s < 0

\* shapely: the point lies on the boundary of the polygon.
touches(P, p) ==
    /\ ~contains(P, p)
    /\ \/ \A s \in Sides(P, p) : s >= 0
       \/ \A s \in Sides(P, p) : s =< 0

Normal(e) == <<e[1][2] - e[2][2], e[2][1] - e[1][1]>>

Proj(P, n) == {n[1] * P[k][1] + n[2] * P[k][2] : k \in 1 .. Len(P)}

SetMax(S) == CHOOSE x \in S : \A y \in S : y =< x

SetMin(S) == CHOOSE x \in S : \A y \in S : x =< y

Separates(n, P, Q) ==
    \/ SetMax(Proj(P, n)) < SetMin(Proj(Q, n))
    \/ SetMax(Proj(Q, n)) < SetMin(Proj(P, n))

\* shapely: the two polygons, as closed sets, share a point.  For convex
\* polygons that is: no edge normal of either separates them.
intersects(P, Q) ==
    \A e \in Edges(P) \cup Edges(Q) : ~Separates(Normal(e), P, Q)

\* point_in_manhattan, on a point given in half steps.
point_in_manhattan(lat, lon, polygon) ==
    contains(polygon, <<lon, lat>>) \/ touches(polygon, <<lon, lat>>)

\* The centre and the corners of a cell, in half steps.
center_lat(cell) == cell.lat_low + cell.lat_high

center_lon(cell) == cell.lon_low + cell.lon_high

corners(cell) ==
    <<  <<2 * cell.lat_low, 2 * cell.lon_low>>,
        <<2 * cell.lat_low, 2 * cell.lon_high>>,
        <<2 * cell.lat_high, 2 * cell.lon_low>>,
        <<2 * cell.lat_high, 2 * cell.lon_high>>  >>

cell_polygon(cell) ==
    <<  <<2 * cell.lon_low, 2 * cell.lat_low>>,
        <<2 * cell.lon_high, 2 * cell.lat_low>>,
        <<2 * cell.lon_high, 2 * cell.lat_high>>,
        <<2 * cell.lon_low, 2 * cell.lat_high>>  >>

\* An overlap test that looks at the centre and the corners only.
cell_overlaps_manhattan_points(cell, polygon) ==
    \/ point_in_manhattan(center_lat(cell), center_lon(cell), polygon)
    \/ \E k \in 1 .. 4 : point_in_manhattan(corners(cell)[k][1], corners(cell)[k][2], polygon)

cell_overlaps_manhattan(cell, polygon) ==
    IF point_in_manhattan(center_lat(cell), center_lon(cell), polygon)
    THEN TRUE
    ELSE IF \E k \in 1 .. 4 :
                point_in_manhattan(corners(cell)[k][1], corners(cell)[k][2], polygon)
    THEN TRUE
    ELSE intersects(cell_polygon(cell), polygon)

\* A range that leaves out index 0.
range_from_one(n) == [k \in 1 .. n - 1 |-> k]

\* Python's range(n), as a sequence.
range(n) == [k \in 1 .. n |-> k - 1]

\* The inner loop of generate_grid_cells: the kept cells of row i.
GridRow(i, N, polygon) ==
    SelectSeq([k \in 1 .. Len(range(N)) |-> LatticeCell(i, range(N)[k], N)],
              LAMBDA cell : cell_overlaps_manhattan(cell, polygon))

\* A loop nest with the longitude index outside.
GridLoopsLonFirst(k, N, polygon) ==
    LET all == [m \in 1 .. N * N |-> LatticeCell((m - 1) % N, (m - 1) \div N, N)]
    IN  SelectSeq(all, LAMBDA cell : cell_overlaps_manhattan(cell, polygon))

\* The outer loop, from its k-th round on.
RECURSIVE GridLoops(_, _, _)
GridLoops(k, N, polygon) ==
    IF k > Len(range(N))
    THEN <<>>
    ELSE GridRow(range(N)[k], N, polygon) \o GridLoops(k + 1, N, polygon)

generate_grid_cells(N, polygon) == GridLoops(1, N, polygon)

\* The bounding box as a polygon, in half steps.
BoxPolygon(N) ==
    <<  <<2 * MANHATTAN_BOUNDS(N).lon_low, 2 * MANHATTAN_BOUNDS(N).lat_low>>,
        <<2 * MANHATTAN_BOUNDS(N).lon_high, 2 * MANHATTAN_BOUNDS(N).lat_low>>,
        <<2 * MANHATTAN_BOUNDS(N).lon_high, 2 * MANHATTAN_BOUNDS(N).lat_high>>,
        <<2 * MANHATTAN_BOUNDS(N).lon_low, 2 * MANHATTAN_BOUNDS(N).lat_high>>  >>

\* The points around the first cell of the lattice: half a step beyond it on
\* every side.
Window(N) ==
    LET cell == LatticeCell(0, 0, N) IN
    (2 * cell.lon_low - 1 .. 2 * cell.lon_high + 1)
        \X (2 * cell.lat_low - 1 .. 2 * cell.lat_high + 1)

Before(p, q) == p[1] < q[1] \/ (p[1] = q[1] /\ p[2] < q[2])

\* The triangles of positive area with their vertices in the window.
Triangles(N) ==
    {t \in Window(N) \X Window(N) \X Window(N) :
        /\ Before(t[1], t[2])
        /\ Before(t[2], t[3])
        /\ Cross(t[1], t[2], t[3]) # 0}

Polygons(N) == {BoxPolygon(N)} \cup Triangles(N)

\* The rows and columns that the polygons of the window can reach.
NearIndices(N) == 0 .. (IF N > 1 THEN 1 ELSE 0)

\* The calls under observation: generate_grid_cells(N, polygon), whose
\* result and whose result at the call before are kept, and
\* cell_overlaps_manhattan on the cell of row i and column j.
GridCalls(maxN) ==
    UNION {{[fn |-> "generate_grid_cells", N |-> N, i |-> 0, j |-> 0,
             polygon |-> polygon, calls |-> 0, result |-> <<>>,
             previous |-> <<>>, value |-> FALSE] :
               polygon \in Polygons(N)} :
           N \in 1 .. maxN}
    \cup
    UNION {{[fn |-> "cell_overlaps_manhattan", N |-> N, i |-> i, j |-> j,
             polygon |-> polygon, calls |-> 0, result |-> <<>>,
             previous |-> <<>>, value |-> FALSE] :
               i \in NearIndices(N), j \in NearIndices(N),
               polygon \in Polygons(N)} :
           N \in 1 .. maxN}

InitGrid ==
    /\ env = GoodEnv
    /\ call \in GridCalls(MaxN)
    /\ NoRun

AuxFrame ==
    UNCHANGED <<run, mainPc, diskVars, semaphore, loopVars, cellVars, mapVars,
                enrichVars, prevMap, env>>

CallGenerateGridCells ==
    /\ call.fn = "generate_grid_cells"
    /\ call.calls < 2
    /\ call' = [call EXCEPT !.calls = @ + 1,
                            !.previous = call.result,
                            !.result = generate_grid_cells(call.N, call.polygon)]
    /\ AuxFrame

CallCellOverlapsManhattan ==
    /\ call.fn = "cell_overlaps_manhattan"
    /\ call.calls = 0
    /\ call' = [call EXCEPT !.calls = @ + 1,
                            !.value = cell_overlaps_manhattan(
                                          LatticeCell(call.i, call.j, call.N),
                                          call.polygon)]
    /\ AuxFrame

NextGrid == CallGenerateGridCells \/ CallCellOverlapsManhattan

SpecGrid == InitGrid /\ [][NextGrid]_vars

(***************************************************************************)
(* The reviews of a get_place response.  A review's publish_time is a      *)
(* protobuf Timestamp, with seconds and nanos, or a value without a        *)
(* seconds attribute (a datetime), or missing.                             *)
(***************************************************************************)
MAX_REVIEWS == 2

MaxResponseReviews == 3

PublishTimes ==
    [kind : {"Timestamp", "datetime"}, seconds : 1 .. 2, nanos : 0 .. 1]
        \cup {[kind |-> "missing", seconds |-> 0, nanos |-> 0]}

\* A key that reads the whole publish time, of either kind.
get_publish_time_exact(review) ==
    IF review.kind = "missing" THEN 0 ELSE 2 * review.seconds + review.nanos

\* get_publish_time: the sort key of a review.
get_publish_time(review) ==
    IF review.kind = "missing"
    THEN 0
    ELSE IF review.kind = "Timestamp" THEN review.seconds ELSE 0

\* One step of a stable descending sort: the review goes behind every
\* review whose key is not smaller.
RECURSIVE InsertReview(_, _)
InsertReview(sorted, review) ==
    IF sorted = <<>>
    THEN <<review>>
    ELSE IF get_publish_time(Head(sorted)) >= get_publish_time(review)
    THEN <<Head(sorted)>> \o InsertReview(Tail(sorted), review)
    ELSE <<review>> \o sorted

\* sorted(response.reviews, key=get_publish_time, reverse=True): reviews
\* with equal keys keep the order of the response.
RECURSIVE SortReviews(_, _)
SortReviews(sorted, reviews) ==
    IF reviews = <<>>
    THEN sorted
    ELSE SortReviews(InsertReview(sorted, Head(reviews)), Tail(reviews))

sorted_reviews(reviews) == SortReviews(<<>>, reviews)

\* sorted_reviews[:MAX_REVIEWS]
reviews_list(reviews) ==
    SubSeq(sorted_reviews(reviews), 1,
           IF Len(reviews) < MAX_REVIEWS THEN Len(reviews) ELSE MAX_REVIEWS)

ReviewCalls(longest) ==
    UNION {{[fn |-> "get_place_details_async", reviews |-> reviews,
             calls |-> 0, result |-> <<>>] :
               reviews \in [1 .. n -> PublishTimes]} :
           n \in 0 .. longest}

InitReviews ==
    /\ env = GoodEnv
    /\ call \in ReviewCalls(MaxResponseReviews)
    /\ NoRun

CallExtractReviews ==
    /\ call.fn = "get_place_details_async"
    /\ call.calls = 0
    /\ call' = [call EXCEPT !.calls = 1, !.result = reviews_list(call.reviews)]
    /\ AuxFrame

NextReviews == CallExtractReviews

SpecReviews == InitReviews /\ [][NextReviews]_vars

(***************************************************************************)
(* The search radius.  Spans are in hundredths of a degree, lengths in     *)
(* units of MetresPerUnit metres, the cosine in thousandths; the radius is *)
(* in metres.  Every intermediate value fits 32 bits.                      *)
(***************************************************************************)
MetresPerUnit == 5

METRES_PER_DEGREE == 111000

BUFFER_METRES == 100

RADIUS_CAP == 50000

\* math.cos(math.radians(center_lat)), in thousandths.
cos_radians(latitude) ==
    CASE latitude = 0 -> 1000
      [] latitude = 41 -> 755
      [] latitude = 60 -> 500

\* The largest r with r * r =< n, between lo and hi.
RECURSIVE SqrtSearch(_, _, _)
SqrtSearch(lo, hi, n) ==
    IF lo = hi
    THEN lo
    ELSE LET mid == (lo + hi + 1) \div 2 IN
         IF mid * mid =< n
         THEN SqrtSearch(mid, hi, n)
         ELSE SqrtSearch(lo, mid - 1, n)

\* math.sqrt, truncated.
sqrt(n) == SqrtSearch(0, 46340, n)

\* lat_diff * 111000, for a span in hundredths of a degree.
lat_meters(lat_diff) == lat_diff * ((METRES_PER_DEGREE \div 100) \div MetresPerUnit)

\* lon_diff * 111000 * cos(radians(center_lat))
lon_meters(lon_diff, latitude) ==
    (lon_diff * ((METRES_PER_DEGREE \div 100) \div MetresPerUnit)
        * cos_radians(latitude)) \div 1000

\* Half of the diagonal.
cell_half_diagonal(lat_diff, lon_diff, latitude) ==
    sqrt(lat_meters(lat_diff) * lat_meters(lat_diff)
         + lon_meters(lon_diff, latitude) * lon_meters(lon_diff, latitude)) \div 2

\* cell_diagonal = math.sqrt(lat_meters**2 + lon_meters**2)
cell_diagonal(lat_diff, lon_diff, latitude) ==
    sqrt(lat_meters(lat_diff) * lat_meters(lat_diff)
         + lon_meters(lon_diff, latitude) * lon_meters(lon_diff, latitude))

Smaller(a, b) == IF a < b THEN a ELSE b

\* radius_meters = min(int(cell_diagonal + 100), 50000)
radius_meters(lat_diff, lon_diff, latitude) ==
    Smaller(MetresPerUnit * cell_diagonal(lat_diff, lon_diff, latitude)
                + BUFFER_METRES,
            RADIUS_CAP)

\* The spans of the cells under observation, from 0.01 degrees to 1 degree,
\* and the latitudes of their centres.
Spans == {1, 2, 5, 10, 20, 50, 100}

Latitudes == {0, 41, 60}

RadiusCalls ==
    [fn : {"search_by_type_async"}, lat_diff : Spans, lon_diff : Spans,
     center_lat : Latitudes, calls : {0}, radius : {0}]

InitRadius ==
    /\ env = GoodEnv
    /\ call \in RadiusCalls
    /\ NoRun

CallRadius ==
    /\ call.fn = "search_by_type_async"
    /\ call.calls = 0
    /\ call' = [call EXCEPT !.calls = 1,
                            !.radius = radius_meters(call.lat_diff, call.lon_diff,
                                                     call.center_lat)]
    /\ AuxFrame

NextRadius == CallRadius

SpecRadius == InitRadius /\ [][NextRadius]_vars

(***************************************************************************)
(* The result limit.  A cell search is given the pages the provider holds  *)
(* for the cell, each of at most max_result_count places; every page but   *)
(* the last comes with a continuation token.                               *)
(***************************************************************************)
PlacesOfPage(n) ==
    {[k \in 1 .. n |-> MkPlace(k, 1, web[k])] : web \in [1 .. n -> BOOLEAN]}

ResponsePages == UNION {PlacesOfPage(n) : n \in 0 .. max_result_count}

\* all_results after the while loop of search_by_type_async, from page k on.
RECURSIVE SearchPages(_, _)
SearchPages(pages, k) ==
    IF k > Len(pages) \/ ~MorePages(k)
    THEN <<>>
    ELSE WithWebsite(pages[k]) \o SearchPages(pages, k + 1)

RECURSIVE RawCount(_, _)
RawCount(pages, k) ==
    IF k > Len(pages) THEN 0 ELSE Len(pages[k]) + RawCount(pages, k + 1)

LimitCalls(most) ==
    UNION {{[fn |-> "process_cell_async", pages |-> pages, calls |-> 0,
             result |-> <<>>, limit_hit |-> FALSE] :
               pages \in [1 .. n -> ResponsePages]} :
           n \in 1 .. most}

InitLimit ==
    /\ env = GoodEnv
    /\ call \in LimitCalls(max_pages)
    /\ NoRun

\* The unit searches the cell, and the as_completed loop tests the length
\* of what it returned.
CallProcessCell ==
    /\ call.fn = "process_cell_async"
    /\ call.calls = 0
    /\ call' = [call EXCEPT !.calls = 1,
                            !.result = SearchPages(call.pages, 1),
                            !.limit_hit = HitsLimit(SearchPages(call.pages, 1))]
    /\ AuxFrame

NextLimit == CallProcessCell

SpecLimit == InitLimit /\ [][NextLimit]_vars

(***************************************************************************)
(* The polygon cache.  MANHATTAN_POLYGON is a module global, None (here    *)
(* the empty sequence) until a load succeeds.  Every point test calls      *)
(* _get_manhattan_polygon; on None the test raises AttributeError and the  *)
(* process ends.                                                           *)
(***************************************************************************)
MaxPointTests == 3

NoPolygon == <<>>

\* What load_manhattan_boundary can return: a polygon when the boundary can
\* be read or downloaded, None otherwise.
LoadResults(e) ==
    IF e.boundary = "available" THEN Polygons(1) ELSE {NoPolygon}

\* (a variant that asks the loader at every call)
NeedsLoadAlways(global) == TRUE

\* if MANHATTAN_POLYGON is not None: return MANHATTAN_POLYGON
NeedsLoad(global) == global = NoPolygon

\* The process starts with the global unset; what the loader would deliver
\* is fixed by the environment.
InitPolygon ==
    /\ env \in {e \in Envs : e.GOOGLE_PLACES_API_KEY = "key"}
    /\ call \in {[fn |-> "point_in_manhattan", MANHATTAN_POLYGON |-> NoPolygon,
                   loads |-> 0, calls |-> 0, polygon |-> NoPolygon,
                   first |-> NoPolygon, raised |-> FALSE, boundary |-> b] :
                     b \in LoadResults(env)}
    /\ NoRun

\* One point test: _get_manhattan_polygon, then polygon.contains.
CallPointInManhattan ==
    /\ call.fn = "point_in_manhattan"
    /\ ~call.raised
    /\ call.calls < MaxPointTests
    /\ LET polygon == IF NeedsLoad(call.MANHATTAN_POLYGON)
                      THEN call.boundary
                      ELSE call.MANHATTAN_POLYGON
       IN  call' = [call EXCEPT
                       !.calls = @ + 1,
                       !.loads = IF NeedsLoad(call.MANHATTAN_POLYGON)
                                 THEN @ + 1 ELSE @,
                       !.MANHATTAN_POLYGON = polygon,
                       !.polygon = polygon,
                       !.first = IF call.calls = 0 THEN polygon ELSE @,
                       !.raised = (polygon = NoPolygon)]
    /\ AuxFrame

NextPolygon == CallPointInManhattan

SpecPolygon == InitPolygon /\ [][NextPolygon]_vars

(***************************************************************************)
(* The script variant (src/script/scrape_restaurants.py): a text search    *)
(* per cell of a GRID_SIZE x GRID_SIZE grid, filtered by the cell's        *)
(* bounds, with caches that are tested for truth.  Coordinates are in      *)
(* lattice units; the world holds one place, which every successful        *)
(* search returns, whatever the cell.                                      *)
(***************************************************************************)
\* GRID_SIZE of the script (20 in the source).
ScriptGridSize == 2
\* Lattice units per cell side.
ScriptStep == 2

\* MANHATTAN_BOUNDS of the script
SCRIPT_BOUNDS ==
    [lat_low |-> 0, lat_high |-> ScriptGridSize * ScriptStep,
     lon_low |-> 0, lon_high |-> ScriptGridSize * ScriptStep]

lat_step == (SCRIPT_BOUNDS.lat_high - SCRIPT_BOUNDS.lat_low) \div ScriptGridSize
lon_step == (SCRIPT_BOUNDS.lon_high - SCRIPT_BOUNDS.lon_low) \div ScriptGridSize

\* generate_grid_cells: for i in range(GRID_SIZE): for j in range(GRID_SIZE)
script_generate_grid_cells ==
    [k \in 1 .. ScriptGridSize * ScriptGridSize |->
        LET i == (k - 1) \div ScriptGridSize
            j == (k - 1) % ScriptGridSize
        IN  [lat_low |-> SCRIPT_BOUNDS.lat_low + i * lat_step,
             lon_low |-> SCRIPT_BOUNDS.lon_low + j * lon_step,
             lat_high |-> SCRIPT_BOUNDS.lat_low + (i + 1) * lat_step,
             lon_high |-> SCRIPT_BOUNDS.lon_low + (j + 1) * lon_step]]

ScriptCells == DOMAIN script_generate_grid_cells

\* (a variant with closed bounds)
is_in_cell_closed(lat, lon, cell) ==
    /\ cell.lat_low <= lat /\ lat <= cell.lat_high
    /\ cell.lon_low <= lon /\ lon <= cell.lon_high

\* is_in_cell
is_in_cell(lat, lon, cell) ==
    /\ cell.lat_low <= lat /\ lat < cell.lat_high
    /\ cell.lon_low <= lon /\ lon < cell.lon_high

\* A place dict of the script's _convert_place_to_dict: 'location' is set
\* only when the response carries one.
ScriptPlace(has_location, lat, lon) ==
    [id |-> 1, has_location |-> has_location, latitude |-> lat, longitude |-> lon]

ScriptPlaces ==
    {ScriptPlace(FALSE, 0, 0)} \cup
    {ScriptPlace(TRUE, lat, lon) :
        lat \in SCRIPT_BOUNDS.lat_low .. SCRIPT_BOUNDS.lat_high,
        lon \in SCRIPT_BOUNDS.lon_low .. SCRIPT_BOUNDS.lon_high}

\* process_cell_async: for result in results: if 'location' in result ...
\* if is_in_cell(lat, lon, cell): filtered_results.append(result)
RECURSIVE filtered_results(_, _)
filtered_results(results, cell) ==
    IF results = <<>> THEN <<>>
    ELSE LET result == Head(results) IN
         IF result.has_location
               /\ is_in_cell(result.latitude, result.longitude, cell)
         THEN <<result>> \o filtered_results(Tail(results), cell)
         ELSE filtered_results(Tail(results), cell)

\* The script's load_grid_cache and load_details_cache: json.load of the
\* file when it exists, else None.
script_load_cache(file) ==
    IF file.kind = "absent" THEN None ELSE json_load(file)

\* (a variant that tests the cached value against None)
truthy_not_none(value) == value.tag # "None"

\* if cached_results: / if cached_details: / if details:
truthy(value) ==
    CASE value.tag = "list" -> value.list # <<>>
      [] value.tag = "dict" -> value.dict # EmptyDict
      [] OTHER -> FALSE

ScriptIdle ==
    [c \in ScriptCells |-> [state |-> "waiting", results |-> <<>>, requests |-> 0,
                            writes |-> 0, cached |-> None]]

NoEnrich == [state |-> "none", requests |-> 0, writes |-> 0, cached |-> None,
             outcome |-> "none"]

InitScript ==
    /\ env = GoodEnv
    /\ call \in {[fn |-> "script", place |-> place, run |-> 1, phase |-> "search",
                  grid |-> [c \in ScriptCells |-> NoFile], details |-> NoFile,
                  cells |-> ScriptIdle, all_restaurants |-> {},
                  enrich |-> NoEnrich, before |-> NoCall] :
                    place \in ScriptPlaces}
    /\ NoRun

\* process_cell_async of the script, for the cell at index c; the provider
\* answers the text search with the place or fails.  A unit reads and
\* writes only its own cell's file, so the units are taken in the order of
\* the task list.
ScriptProcessCell(c, outcome) ==
    /\ call.fn = "script"
    /\ call.phase = "search"
    /\ call.cells[c].state = "waiting"
    /\ \A d \in ScriptCells : d < c => call.cells[d].state # "waiting"
    /\ LET cell == script_generate_grid_cells[c]
           cached == script_load_cache(call.grid[c])
           results == IF outcome = "ok" THEN <<call.place>> ELSE <<>>
           kept == filtered_results(results, cell)
       IN
       IF truthy(cached)
       THEN /\ outcome = "ok"
            /\ call' = [call EXCEPT
                  !.cells[c] = [state |-> "hit", results |-> cached.list,
                                requests |-> 0, writes |-> 0,
                                cached |-> cached]]
       ELSE call' = [call EXCEPT
                  !.cells[c] = [state |-> outcome, results |-> kept,
                                requests |-> 1, writes |-> 1,
                                cached |-> cached],
                  !.grid[c] = save_grid_cache(kept)]
    /\ AuxFrame

\* scrape_grid_cells_async of the script: all_restaurants[result['id']]
ScriptMerge ==
    /\ call.fn = "script"
    /\ call.phase = "search"
    /\ \A c \in ScriptCells : call.cells[c].state # "waiting"
    /\ LET ids == UNION {{call.cells[c].results[n].id :
                            n \in 1 .. Len(call.cells[c].results)} :
                         c \in ScriptCells}
       IN call' = [call EXCEPT
              !.phase = "enrich",
              !.all_restaurants = ids,
              !.enrich = [NoEnrich EXCEPT
                             !.state = IF ids = {} THEN "none" ELSE "waiting"]]
    /\ AuxFrame

\* enrich_restaurant_async of the script; get_place_details_async returns
\* the details, or None (nothing in the response, or an exception).
ScriptEnrich(outcome) ==
    /\ call.fn = "script"
    /\ call.phase = "enrich"
    /\ call.enrich.state = "waiting"
    /\ LET cached == script_load_cache(call.details)
           details == IF outcome = "details" THEN PyDict("dA") ELSE None
       IN
       IF truthy(cached)
       THEN /\ outcome = "details"
            /\ call' = [call EXCEPT
                  !.enrich = [state |-> "hit", requests |-> 0, writes |-> 0,
                              cached |-> cached, outcome |-> "none"]]
       ELSE IF truthy(details)
       THEN call' = [call EXCEPT
                  !.enrich = [state |-> "fetched", requests |-> 1, writes |-> 1,
                              cached |-> cached, outcome |-> outcome],
                  !.details = JsonFile(JsonObject(details.dict))]
       ELSE call' = [call EXCEPT
                  !.enrich = [state |-> "fetched", requests |-> 1, writes |-> 0,
                              cached |-> cached, outcome |-> outcome]]
    /\ AuxFrame

\* main_async of the script has saved its output; the script is started
\* again over the same cache directories.
ScriptRerun ==
    /\ call.fn = "script"
    /\ call.phase = "enrich"
    /\ call.enrich.state # "waiting"
    /\ call.run < MaxRuns
    /\ call' = [call EXCEPT
          !.run = @ + 1,
          !.phase = "search",
          !.cells = ScriptIdle,
          !.all_restaurants = {},
          !.enrich = NoEnrich,
          !.before = [fn |-> "script", grid |-> call.grid,
                      details |-> call.details, enrich |-> call.enrich]]
    /\ AuxFrame

NextScript ==
    \/ \E c \in ScriptCells, outcome \in {"ok", "error"} :
          ScriptProcessCell(c, outcome)
    \/ ScriptMerge
    \/ \E outcome \in {"details", "nothing", "error"} : ScriptEnrich(outcome)
    \/ ScriptRerun

SpecScript == InitScript /\ [][NextScript]_vars

(***************************************************************************)
(* The menu parser (src/script/parse_menus.py) and its cache               *)
(* (src/parser/cache.py).  A cache file is absent, unreadable, or holds a  *)
(* menu with its extraction_date; ages are whole days.                     *)
(***************************************************************************)
\* self.cache_ttl_days
cache_ttl_days == 30
\* Calls of parse_restaurant for the one restaurant, one per run.
MaxMenuCalls == 2

NoMenuFile == [kind |-> "absent", age |-> 0, menu |-> "none"]
BadMenuFile == [kind |-> "bad", age |-> 0, menu |-> "none"]
MenuFile(menu, age) == [kind |-> "menu", age |-> age, menu |-> menu]

NoMenu == [kind |-> "None", menu |-> "none"]
RestaurantMenu(menu) == [kind |-> "RestaurantMenu", menu |-> menu]

\* MenuCache.load: None when the file does not exist, when reading it
\* raises, or when utcnow() - extraction_date > timedelta(days=30).
MenuCache_load(file) ==
    CASE file.kind = "absent" -> NoMenu
      [] file.kind = "bad" -> NoMenu
      [] file.age > cache_ttl_days -> NoMenu
      [] OTHER -> RestaurantMenu(file.menu)

\* MenuCache.save: the menu with the extraction_date of its construction.
MenuCache_save(restaurant_menu) == MenuFile(restaurant_menu.menu, 0)

\* What get_menu_content and the parsers can do for one restaurant: no menu
\* URL, a URL without content, an exception, a parse with no valid item,
\* a parse with items.
ParseOutcomes == {"no_menu_url", "no_content", "raises", "parsed_empty", "parsed"}

\* (a variant that saves whatever the parsers did)
reaches_save_always(outcome) == outcome # "no_menu_url"

\* The outcomes with which parse_restaurant reaches self.cache.save.
reaches_save(outcome) == outcome \in {"parsed_empty", "parsed"}

\* The cache file as the clock advances.
Aged(file, days) ==
    IF file.kind = "menu" THEN [file EXCEPT !.age = @ + days] ELSE file

MenuFiles ==
    {NoMenuFile, BadMenuFile} \cup
    {MenuFile("cached", age) :
        age \in {0, cache_ttl_days - 1, cache_ttl_days, cache_ttl_days + 1}}

InitMenu ==
    /\ env = GoodEnv
    /\ call \in {[fn |-> "parse_restaurant", websiteUri |-> w, file |-> file,
                  calls |-> 0, found |-> file, outcome |-> "none",
                  fetches |-> 0, writes |-> 0, result |-> NoMenu,
                  last |-> NoCall] :
                    w \in BOOLEAN, file \in MenuFiles}
    /\ NoRun

\* One call of MenuParser.parse_restaurant, some days after the one before.
ParseRestaurant(days, outcome) ==
    /\ call.fn = "parse_restaurant"
    /\ call.calls < MaxMenuCalls
    /\ LET found == Aged(call.file, days)
           cached_menu == MenuCache_load(found)
           restaurant_menu ==
               RestaurantMenu(IF outcome = "parsed" THEN "parsed" ELSE "empty")
           this == [call EXCEPT
                       !.calls = @ + 1,
                       !.found = found,
                       !.file = found,
                       !.last = [fn |-> "parse_restaurant",
                                 outcome |-> call.outcome,
                                 fetches |-> call.fetches]]
       IN
       IF ~call.websiteUri \/ cached_menu # NoMenu
       THEN /\ outcome = "parsed"
            /\ call' = [this EXCEPT
                  !.outcome = "none", !.fetches = 0, !.writes = 0,
                  !.result = IF call.websiteUri THEN cached_menu ELSE NoMenu]
       ELSE IF reaches_save(outcome)
       THEN call' = [this EXCEPT
                  !.outcome = outcome, !.fetches = 1, !.writes = 1,
                  !.file = MenuCache_save(restaurant_menu),
                  !.result = restaurant_menu]
       ELSE call' = [this EXCEPT
                  !.outcome = outcome, !.fetches = 1, !.writes = 0,
                  !.result = NoMenu]
    /\ AuxFrame

NextMenu ==
    \E days \in {0, 1, cache_ttl_days}, outcome \in ParseOutcomes :
        ParseRestaurant(days, outcome)

SpecMenu == InitMenu /\ [][NextMenu]_vars

Next ==
    \/ \E c \in Cells : EnterCell(c)
    \/ \E c \in Cells, o \in SearchOutcomes : SearchResponse(c, o)
    \/ \E c \in Cells : PageSleepDone(c)
    \/ \E c \in Cells : CooldownDone(c)
    \/ Merge
    \/ \E i \in Ids : EnterEnrich(i)
    \/ \E i \in Ids, o \in DetailOutcomes : DetailsResponse(i, o)
    \/ \E i \in Ids : DetailsCooldownDone(i)
    \/ \E i \in Ids : DetailsSleepDone(i)
    \/ SaveOutput
    \/ Rerun

Spec == Init /\ [][Next]_vars

\* One run, with a provider that answers every request and an event loop
\* that runs every coroutine that can take a step.
NextRun ==
    \/ \E c \in Cells : EnterCell(c)
    \/ \E c \in Cells, o \in SearchOutcomes : SearchResponse(c, o)
    \/ \E c \in Cells : PageSleepDone(c)
    \/ \E c \in Cells : CooldownDone(c)
    \/ Merge
    \/ \E i \in Ids : EnterEnrich(i)
    \/ \E i \in Ids, o \in DetailOutcomes : DetailsResponse(i, o)
    \/ \E i \in Ids : DetailsCooldownDone(i)
    \/ \E i \in Ids : DetailsSleepDone(i)
    \/ SaveOutput

SpecRun == Init /\ [][NextRun]_vars /\ WF_vars(NextRun)

\* The runs start from cache directories that hold files already.
SpecDisk == InitDisk /\ [][Next]_vars

SpecForeign == InitForeign /\ [][Next]_vars

\* The runs start from a cache that holds an old record.
SpecSeeded == InitSeeded /\ [][Next]_vars

\* The writes of cache files may fail.
NextFail ==
    \/ Next
    \/ \E c \in Cells : SaveGridCacheRaises(c)
    \/ \E i \in Ids : SaveDetailsCacheRaises(i)

SpecFail == Init /\ [][NextFail]_vars

\* The runs may be interrupted at any point and may end with an exception;
\* the next run starts from the cache the stopped run left.
NextResume == NextFail \/ Interrupt \/ Resume

SpecResume == Init /\ [][NextResume]_vars

\* The cache functions called with arbitrary values.
SpecCache == Init /\ [][NextCache]_vars

\* The runs with their startup, in every environment.
NextStartup == Startup \/ Next

SpecStartup == InitStartup /\ [][NextStartup]_vars

(***************************************************************************)
(* Properties.                                                             *)
(***************************************************************************)
InsideCells == {c \in Cells : cellPc[c] \in {"request", "page_sleep", "cooldown"}}
InsideEnrich == {i \in Ids : enrichPc[i] \in {"request", "details_sleep", "cooldown"}}

\* C1: a cell unit whose load_grid_cache returned a list returns exactly
\* that list with (from_cache=True, made_api_call=False), has sent no
\* search_nearby request and has not written the grid cache.
C1_CacheHitReturnsCachedList ==
    \A c \in Cells :
        (cellPc[c] = "done" /\ cached_results[c].tag = "list") =>
            /\ cellRet[c] = Ret(cached_results[c].list, TRUE, FALSE)
            /\ searchReqs[c] = 0
            /\ gridWrites[c] = 0

\* A cell unit has returned a cached non-empty list and another one a
\* cached empty list.
C1_Witness ==
    \E c, d \in Cells :
        /\ cellPc[c] = "done" /\ cached_results[c].tag = "list"
        /\ cached_results[c].list # <<>> /\ cellRet[c].from_cache
        /\ cellPc[d] = "done" /\ cached_results[d] = PyList(<<>>)
        /\ cellRet[d].from_cache

NoRequestsInThisRun ==
    /\ \A c \in Cells : searchReqs[c] = 0
    /\ \A i \in Ids : getReqs[i] = 0

\* The instances of place k that the grid cache holds.
RECURSIVE InstancesIn(_, _)
InstancesIn(places, k) ==
    IF places = <<>> THEN {}
    ELSE (IF Head(places).id = k /\ Head(places).web THEN {Head(places)} ELSE {})
            \cup InstancesIn(Tail(places), k)

CachedInstances(k) ==
    UNION {InstancesIn(load_grid_cache(gridCache[c]).list, k) : c \in Cells}

\* The fields of an entity that only the search step sets.
SearchFields(e) == [id |-> e.id, ver |-> e.ver, web |-> e.web]

\* C2 (as stated): a run after a completed run sends no search_nearby and
\* no get_place request and ends with an entity map equal to the previous
\* run's.
C2_SecondRunEqualMap ==
    run >= 2 =>
        /\ NoRequestsInThisRun
        /\ mainPc = "done" => all_restaurants = prevMap

\* C2 (amended): a run after a completed run sends no search_nearby and no
\* get_place request and ends with an entity map of the same ids and the
\* same detail fields (a reviewSummary set by the details included) as the
\* previous run's; the other search fields of an id are those of one of its
\* cached instances, hence equal to the previous run's when the cells
\* cached only one instance of that id.
C2_SecondRunFromCache ==
    run >= 2 =>
        /\ NoRequestsInThisRun
        /\ mainPc = "done" =>
             /\ DOMAIN all_restaurants = DOMAIN prevMap
             /\ \A k \in DOMAIN all_restaurants :
                  /\ all_restaurants[k].det = prevMap[k].det
                  /\ all_restaurants[k].reviewSummary = prevMap[k].reviewSummary
                  /\ SearchFields(all_restaurants[k]) \in
                        {SearchFields(e) : e \in CachedInstances(k)}
                  /\ Cardinality(CachedInstances(k)) = 1 =>
                        all_restaurants[k] = prevMap[k]

\* A second run has ended with a map of three entities, one of them with
\* detail fields, after a first run that cached an empty cell.
C2_Witness ==
    /\ run = 2
    /\ mainPc = "done"
    /\ DOMAIN all_restaurants = {1, 2, 3}
    /\ all_restaurants[1].det = "dA"
    /\ all_restaurants[2].det = EmptyDict
    /\ gridCache[3] = JsonFile(JsonList(<<>>))

\* C3: after a search_nearby request failed with a non-rate-limit error the
\* finished unit's cache record is still Absent.
C3_ErrorLeavesCacheAbsent ==
    \A c \in Cells :
        (cellPc[c] = "done" /\ searchOutcome[c] = "error") =>
            load_grid_cache(gridCache[c]) = None

\* C4: after a rate-limit signal and the cooldown the finished unit's cache
\* record is still Absent.
C4_RateLimitLeavesCacheAbsent ==
    \A c \in Cells :
        (cellPc[c] = "done" /\ searchOutcome[c] = "429") =>
            load_grid_cache(gridCache[c]) = None

\* C5: after get_place failed, with a rate-limit signal or another error,
\* the entity's detail cache record is Absent.
C5_FailedDetailsLeaveCacheAbsent ==
    \A i \in Ids :
        (enrichPc[i] = "done" /\ getOutcome[i] \in {"429", "error"}) =>
            load_details_cache(detailsCache[i]) = None

Saved(v) == v.tag # "unsaved"

C7_RateLimitedUnitEndsPresent ==
    /\ \A c \in Cells :
         (/\ cellPc[c] = "done"
          /\ searchOutcome[c] = "429"
          /\ searchReqs[c] = 1
          /\ WithWebsite(ProviderPage(c, 1)) # <<>>) =>
            /\ load_grid_cache(gridCache[c]).tag = "list"
            /\ load_grid_cache(gridCache[c]).list # <<>>
    /\ \A i \in Ids :
         (enrichPc[i] = "done" /\ getOutcome[i] = "429") =>
            /\ load_details_cache(detailsCache[i]).tag = "dict"
            /\ load_details_cache(detailsCache[i]).dict # EmptyDict

\* C8: an enrichment unit whose load_details_cache returned a dict has sent
\* no get_place request, has not written the details cache and returns
\* (from_cache=True, made_api_call=False); its entity carries the cached
\* fields when they are non-empty and is unchanged when they are empty.
C8_DetailsCacheHit ==
    \A i \in Ids :
        (enrichPc[i] = "done" /\ cached_details[i].tag = "dict") =>
            /\ enrichRet[i] = Ret(<<>>, TRUE, FALSE)
            /\ getReqs[i] = 0
            /\ detailsWrites[i] = 0
            /\ all_restaurants[i].det = cached_details[i].dict

\* One enrichment unit has returned on cached empty details and another one
\* on cached non-empty details, which its entity now carries.
C8_Witness ==
    \E i, j \in Ids :
        /\ enrichPc[i] = "done" /\ cached_details[i] = PyDict(EmptyDict)
        /\ enrichRet[i].from_cache /\ all_restaurants[i].det = EmptyDict
        /\ enrichPc[j] = "done" /\ cached_details[j].tag = "dict"
        /\ cached_details[j].dict \in DetailDicts
        /\ enrichRet[j].from_cache /\ all_restaurants[j].det = cached_details[j].dict

\* C9: a cache file that cannot be decoded is read as Absent: no
\* load_grid_cache or load_details_cache call raises, so that no unit ends
\* with an exception of the decoder.
C9_UndecodableFileIsAbsent ==
    /\ \A c \in Cells : cached_results[c].tag \in {"None", "list"}
    /\ \A i \in Ids : cached_details[i].tag \in {"None", "dict"}

\* C10: in the search phase at most MAX_CONCURRENT_GRID_SEARCHES cell units
\* are inside their async-with block, in the enrichment phase at most
\* MAX_CONCURRENT_DETAILS enrichment units; the requests in flight are at
\* most as many.
C10_BoundedConcurrency ==
    /\ Cardinality(InsideCells) <= MAX_CONCURRENT_GRID_SEARCHES
    /\ Cardinality({c \in Cells : cellPc[c] = "request"}) <= MAX_CONCURRENT_GRID_SEARCHES
    /\ Cardinality(InsideEnrich) <= MAX_CONCURRENT_DETAILS
    /\ Cardinality({i \in Ids : enrichPc[i] = "request"}) <= MAX_CONCURRENT_DETAILS
    /\ mainPc = "search" => InsideEnrich = {}
    /\ mainPc = "enrich" => InsideCells = {}

\* The enrichment semaphore is saturated: MAX_CONCURRENT_DETAILS requests
\* are in flight and a further unit waits for a permit.
C10_Witness ==
    /\ mainPc = "enrich"
    /\ Cardinality({i \in Ids : enrichPc[i] = "request"}) = MAX_CONCURRENT_DETAILS
    /\ \E i \in Ids : enrichPc[i] = "waiting"

\* C11: a unit that ends with an exception (a cache file it cannot decode,
\* a cache file it cannot write) does not stop the phase: no sibling unit is
\* cancelled and the run is not aborted.
C11_UnitFailureIsContained ==
    (\/ \E c \in Cells : cellPc[c] = "raised"
     \/ \E i \in Ids : enrichPc[i] = "raised") =>
        /\ mainPc # "aborted"
        /\ \A c \in Cells : cellPc[c] # "cancelled"
        /\ \A i \in Ids : enrichPc[i] # "cancelled"

\* C12: a grid or detail cache record that is Present or Empty is never
\* overwritten or deleted, in any run and across interrupted and failed
\* runs; a cache file changes only in a step of the unit of that key, which
\* is inside its async-with block and has read the key as Absent.
C12_CachedRecordsAreKept ==
    [][/\ \A c \in Cells :
            /\ load_grid_cache(gridCache[c]).tag = "list" =>
                    gridCache'[c] = gridCache[c]
            /\ gridCache'[c] # gridCache[c] =>
                    /\ c \in InsideCells
                    /\ cached_results[c] = None
       /\ \A i \in Ids :
            /\ load_details_cache(detailsCache[i]).tag = "dict" =>
                    detailsCache'[i] = detailsCache[i]
            /\ detailsCache'[i] # detailsCache[i] =>
                    /\ i \in InsideEnrich
                    /\ cached_details[i] = None]_vars

\* A run after a stopped run reuses the non-empty record of one cell and
\* the empty record of another and writes the record of a third, which the
\* stopped run had left Absent.
C12_Witness ==
    /\ run = 2
    /\ \E c, d, e \in Cells :
          /\ cellRet[c].from_cache /\ cellRet[c].results # <<>>
          /\ cellRet[d].from_cache /\ cellRet[d].results = <<>>
          /\ gridWrites[e] = 1 /\ cellRet[e].made_api_call

\* C13: a cell unit that has returned (results, from_cache=False,
\* made_api_call=True) has written its cell's cache record, once, and the
\* record holds exactly the returned list, all of whose entities have a
\* websiteUri, also when the list is empty; every finished unit that sent a
\* search_nearby request returns that way.  Likewise an enrichment unit
\* that called get_place has written the entity's detail record before it
\* returns (False, True).
C13_WrittenBeforeReturn ==
    /\ \A c \in Cells :
         /\ (cellRet[c].returned /\ cellRet[c].made_api_call) =>
               /\ ~cellRet[c].from_cache
               /\ gridWrites[c] = 1
               /\ load_grid_cache(gridCache[c]) = PyList(cellRet[c].results)
               /\ \A n \in DOMAIN cellRet[c].results : cellRet[c].results[n].web
         /\ (cellPc[c] = "done" /\ searchReqs[c] > 0) =>
               cellRet[c].returned /\ cellRet[c].made_api_call
    /\ \A i \in Ids :
         /\ (enrichRet[i].returned /\ enrichRet[i].made_api_call) =>
               /\ ~enrichRet[i].from_cache
               /\ detailsWrites[i] = 1
               /\ load_details_cache(detailsCache[i]) =
                     IF getOutcome[i] = "details" THEN PyDict(ProviderDetails(i))
                     ELSE PyDict(EmptyDict)
         /\ (enrichPc[i] = "done" /\ getReqs[i] > 0) =>
               enrichRet[i].returned /\ enrichRet[i].made_api_call

\* In one run a cell unit has saved an empty list, an enrichment unit has
\* returned after saving details and another after a failed get_place.
C13_Witness ==
    /\ run = 1
    /\ \E c \in Cells : lastSavedList[c] = PyList(<<>>)
    /\ \E i, j \in Ids :
          /\ enrichRet[i].made_api_call /\ getOutcome[i] = "details"
          /\ detailsCache[i] = JsonFile(JsonObject(ProviderDetails(i)))
          /\ enrichRet[j].made_api_call /\ getOutcome[j] = "error"
          /\ detailsCache[j] = JsonFile(JsonObject(EmptyMarker))

\* The keys of a sequence of keys.
Range(seq) == {seq[n] : n \in DOMAIN seq}

\* C14: an enrichment unit acts (reads the detail cache, sends get_place,
\* writes the detail cache) only after every cell unit has completed, so
\* that every cell has a cache record, and after the merge; during the
\* search phase the entity map is empty, and from the start of the
\* enrichment phase its key set is the set of the enrichment units.
C14_EnrichAfterMerge ==
    /\ \A i \in Ids :
         (\/ enrichPc[i] \notin {"none", "waiting"}
          \/ getReqs[i] > 0
          \/ detailsWrites[i] > 0) =>
            /\ mainPc # "search"
            /\ \A c \in Cells :
                 /\ cellPc[c] = "gone"
                 /\ load_grid_cache(gridCache[c]).tag = "list"
    /\ mainPc = "search" =>
         /\ all_restaurants = <<>>
         /\ \A i \in Ids : enrichPc[i] = "none"
    /\ mainPc \in {"enrich", "done"} =>
         /\ DOMAIN all_restaurants = {i \in Ids : enrichPc[i] # "none"}
         /\ DOMAIN all_restaurants = Range(key_order)
         /\ \A c \in Cells : load_grid_cache(gridCache[c]).tag = "list"

\* In the first run two get_place requests are in flight for a map of three
\* entities, after cell units that searched.
C14_Witness ==
    /\ run = 1
    /\ mainPc = "enrich"
    /\ DOMAIN all_restaurants = {1, 2, 3}
    /\ Cardinality({i \in Ids : enrichPc[i] = "request"}) = 2
    /\ \A c \in Cells : cellPc[c] = "gone"

\* The positions of the list at which place k occurs, and the last of them.
Occurrences(flat, k, positions) == {n \in positions : flat[n].id = k}
LastOf(positions) == CHOOSE n \in positions : \A m \in positions : m <= n

\* The merge step of scrape_grid_cells_async builds, from the cell results
\* in completion order, the map that has one entry for each id occurring at
\* the given positions, the instance at the last of them.
MergeKeepsLast(flat, positions, map) ==
    /\ DOMAIN map = {flat[n].id : n \in positions}
    /\ \A k \in DOMAIN map : map[k] = flat[LastOf(Occurrences(flat, k, positions))]

GridFiles == [c \in Cells |-> cache_filename(GridCell(c))]
DetailFiles == [i \in Ids |-> details_filename(i)]
GridWriters(name) == {c \in Cells : gridWrites[c] > 0 /\ GridFiles[c] = name}
DetailsWriters(name) == {i \in Ids : detailsWrites[i] > 0 /\ DetailFiles[i] = name}

\* C16: within one run no two units write the same cache file: two distinct
\* cells never share a cache_filename and two distinct ids never share a
\* detail file, every unit writes its own file at most once, and so every
\* file of cache/grid and of cache/details has at most one writer.
C16_OneWriterPerFile ==
    /\ \A c, d \in Cells : c # d => GridFiles[c] # GridFiles[d]
    /\ \A i, j \in Ids : i # j => DetailFiles[i] # DetailFiles[j]
    /\ \A c \in Cells :
         /\ gridWrites[c] <= 1
         /\ Cardinality(GridWriters(GridFiles[c])) <= 1
    /\ \A i \in Ids :
         /\ detailsWrites[i] <= 1
         /\ Cardinality(DetailsWriters(DetailFiles[i])) <= 1

\* Two cell units of one lattice row have both written their files.
C16_Witness ==
    /\ gridWrites[1] = 1 /\ gridWrites[2] = 1
    /\ GridCell(1).lat_low = GridCell(2).lat_low
    /\ GridCell(1).lat_high = GridCell(2).lat_high
    /\ cellPc[1] = "done" /\ cellPc[2] = "done"

\* C17: for one cell search_by_type_async sends at most max_pages = 3
\* search_nearby requests; the request in flight is the first one, without a
\* token, or request k+1 carrying the token of response k; a further
\* request is sent only at the end of the inter-page sleep that follows a
\* response with a token, and none after a response without a token.
C17_PaginationInOrder ==
    /\ [](\A c \in Cells :
            /\ searchReqs[c] <= max_pages
            /\ cellPc[c] = "request" =>
                  /\ page_num[c] = searchReqs[c]
                  /\ next_page_token[c] = searchReqs[c] - 1)
    /\ [][\A c \in Cells :
            /\ (searchReqs[c] >= 1 /\ searchReqs'[c] = searchReqs[c] + 1) =>
                  /\ cellPc[c] = "page_sleep"
                  /\ searchOutcome[c] = "ok_token"
                  /\ next_page_token[c] = searchReqs[c]
            /\ (searchReqs[c] >= 1 /\ searchOutcome[c] # "ok_token") =>
                  searchReqs'[c] \in {searchReqs[c], 0}]_vars

\* A cell unit has finished after three requests, the third of which was
\* answered with a token, and another after one request answered without.
C17_Witness ==
    \E c, d \in Cells :
        /\ cellPc[c] = "done" /\ searchReqs[c] = 3 /\ searchOutcome[c] = "ok_token"
        /\ next_page_token[c] = 3
        /\ cellPc[d] = "done" /\ searchReqs[d] = 1 /\ searchOutcome[d] = "ok_last"

AllWithWebsite(places) == \A n \in DOMAIN places : places[n].web

\* C18: every entity search_by_type_async has gathered or returned, every
\* entity passed to save_grid_cache, every entity of the merged map and
\* every entity of the final output has a websiteUri; the map's entries have
\* an id, which is their key, so that an entity without a websiteUri or
\* without an id, also one read from an old cache file, is not in the map.
C18_OnlyWithWebsite ==
    /\ \A c \in Cells :
         /\ AllWithWebsite(all_results[c])
         /\ cellRet[c].made_api_call => AllWithWebsite(cellRet[c].results)
         /\ Saved(lastSavedList[c]) => AllWithWebsite(lastSavedList[c].list)
    /\ \A k \in DOMAIN all_restaurants :
         /\ all_restaurants[k].web
         /\ all_restaurants[k].id = k
         /\ k # 0
    /\ AllWithWebsite(outputFile.restaurants)

\* The run has written its output of three entities after cell 1's search
\* returned place 1 and dropped place 4, which has no websiteUri, and after
\* cell 3's old record, which holds entities without a websiteUri and
\* without an id, was read as a cache hit.
C18_Witness ==
    /\ run = 1
    /\ mainPc = "done"
    /\ outputFile.written
    /\ Len(outputFile.restaurants) = 3
    /\ lastSavedList[1] = PyList(<<MkPlace(1, 1, TRUE)>>)
    /\ load_grid_cache(gridCache[3]) = PyList(OldCellList)
    /\ ~AllWithWebsite(OldCellList)

\* The output file and the map at the end of a run, and before it.
OutputMatchesMap ==
    /\ mainPc = "done" =>
          /\ outputFile.written
          /\ \A i \in Ids : enrichPc[i] \in {"done", "none"}
          /\ outputFile.total_count = Cardinality(DOMAIN all_restaurants)
          /\ outputFile.restaurants = Values(all_restaurants, key_order)
    /\ outputFile.written =>
          outputFile.total_count = Len(outputFile.restaurants)
    /\ (run = 1 /\ mainPc # "done") => outputFile = NoOutput

\* C19: save_output writes OUTPUT_FILE once per run, in the step that ends
\* the run, when every enrichment unit has completed: the file changes in
\* no other step, so that a run that is aborted writes none and, in the
\* first run, no file exists before the end.  The snapshot's total_count
\* is the length of its restaurants list and the number of keys of the
\* map, whose values the list holds.
C19_OutputOnceAtTheEnd ==
    /\ []OutputMatchesMap
    /\ [][outputFile' # outputFile =>
            /\ mainPc = "enrich"
            /\ mainPc' = "done"
            /\ \A i \in Ids : enrichPc[i] \in {"done", "none"}]_vars

\* The first run has ended and its output holds three entities, two of
\* them enriched by a get_place request and one left without details.
C19_Witness ==
    /\ run = 1
    /\ mainPc = "done"
    /\ outputFile.total_count = 3
    /\ Len(outputFile.restaurants) = 3
    /\ Cardinality({i \in Ids : getOutcome[i] = "details"}) = 2
    /\ \E i \in Ids : getOutcome[i] = "429" /\ all_restaurants[i].det = EmptyDict

\* C20: a step of an enrichment unit leaves the key set of the entity map
\* and every other entity unchanged, and leaves its own entity's id and
\* every field set by the search step, the reviewSummary among them,
\* unchanged: it only adds detail fields.
C20_EnrichmentOnlyAddsFields ==
    [][mainPc = "enrich" =>
          /\ DOMAIN all_restaurants' = DOMAIN all_restaurants
          /\ \A k \in DOMAIN all_restaurants :
                all_restaurants'[k] # all_restaurants[k] =>
                    /\ enrichPc'[k] # enrichPc[k]
                    /\ SearchFields(all_restaurants'[k]) = SearchFields(all_restaurants[k])
                    /\ all_restaurants'[k].reviewSummary = all_restaurants[k].reviewSummary]_vars

\* C21: when the API key is missing or the boundary polygon cannot be
\* loaded, the run aborts before any unit exists: no search_nearby and no
\* get_place request is sent, no grid or details cache file is written and
\* no output file is written.
C21_BadEnvironment ==
    \/ env.GOOGLE_PLACES_API_KEY = ""
    \/ env.boundary = "unavailable"

Generated == call.fn = "generate_grid_cells" /\ call.calls >= 1

Overlapped == call.fn = "cell_overlaps_manhattan" /\ call.calls >= 1

AllLatticeCells(N) == {LatticeCell(i, j, N) : i \in 0 .. N - 1, j \in 0 .. N - 1}

\* C22: when the polygon is the bounding box itself, generate_grid_cells
\* returns every cell of the N x N lattice, each once.
C22_BoxKeepsEveryCell ==
    (Generated /\ call.polygon = BoxPolygon(call.N)) =>
        /\ Len(call.result) = call.N * call.N
        /\ Range(call.result) = AllLatticeCells(call.N)

C22_Witness ==
    /\ Generated
    /\ call.polygon = BoxPolygon(call.N)
    /\ call.N = 2
    /\ Len(call.result) = 4

\* Neither the centre nor a corner of the cell lies in or on the polygon.
NoPointInPolygon(cell, polygon) ==
    /\ ~point_in_manhattan(center_lat(cell), center_lon(cell), polygon)
    /\ \A k \in 1 .. 4 :
          ~point_in_manhattan(corners(cell)[k][1], corners(cell)[k][2], polygon)

\* The two segments cross in a point interior to both.
SegmentsCross(e, f) ==
    /\ Cross(e[1], e[2], f[1]) * Cross(e[1], e[2], f[2]) < 0
    /\ Cross(f[1], f[2], e[1]) * Cross(f[1], f[2], e[2]) < 0

\* An edge of the polygon crosses an edge of the cell.
CrossesCell(cell, polygon) ==
    \E e \in Edges(polygon), f \in Edges(cell_polygon(cell)) : SegmentsCross(e, f)

\* C23: cell_overlaps_manhattan is True for a cell that a polygon crosses
\* with neither the centre nor a corner of the cell in or on the polygon;
\* generate_grid_cells keeps a cell exactly when its centre is in or on the
\* polygon, or a corner is, or its rectangle intersects the polygon.
C23_SliverIsKept ==
    /\ Overlapped =>
          LET cell == LatticeCell(call.i, call.j, call.N) IN
          (CrossesCell(cell, call.polygon) /\ NoPointInPolygon(cell, call.polygon))
              => call.value
    /\ Generated =>
          \A cell \in AllLatticeCells(call.N) :
              cell \in Range(call.result) <=>
                  \/ ~NoPointInPolygon(cell, call.polygon)
                  \/ intersects(cell_polygon(cell), call.polygon)

C23_Witness ==
    /\ Overlapped
    /\ CrossesCell(LatticeCell(call.i, call.j, call.N), call.polygon)
    /\ NoPointInPolygon(LatticeCell(call.i, call.j, call.N), call.polygon)
    /\ call.value

\* The cell comes before the other in row-major order.
RowMajorBefore(a, b) ==
    \/ a.lat_low < b.lat_low
    \/ a.lat_low = b.lat_low /\ a.lon_low < b.lon_low

PublishTime(review) == 2 * review.seconds + review.nanos

DistinctPublishTimes(reviews) ==
    /\ \A k \in 1 .. Len(reviews) : reviews[k].kind # "missing"
    /\ \A k, m \in 1 .. Len(reviews) :
          k # m => PublishTime(reviews[k]) # PublishTime(reviews[m])

\* C25: get_place_details_async returns at most MAX_REVIEWS reviews; they
\* are the reviews of the response with the largest publish times, in
\* descending publish-time order.
C25_MostRecentReviews ==
    (/\ call.fn = "get_place_details_async"
     /\ call.calls = 1
     /\ DistinctPublishTimes(call.reviews)) =>
        /\ Len(call.result) =< MAX_REVIEWS
        /\ Len(call.result) = MAX_REVIEWS \/ Len(call.result) = Len(call.reviews)
        /\ Range(call.result) \subseteq Range(call.reviews)
        /\ \A k \in 1 .. Len(call.result) - 1 :
              PublishTime(call.result[k]) > PublishTime(call.result[k + 1])
        /\ \A r \in Range(call.reviews) \ Range(call.result) :
              \A kept \in Range(call.result) : PublishTime(kept) > PublishTime(r)

RadiusComputed == call.fn = "search_by_type_async" /\ call.calls = 1

\* The square of the cell's diagonal, in squared length units.
DiagonalSquared ==
    lat_meters(call.lat_diff) * lat_meters(call.lat_diff)
    + lon_meters(call.lon_diff, call.center_lat) * lon_meters(call.lon_diff, call.center_lat)

\* The radius, in length units.
RadiusUnits == call.radius \div MetresPerUnit

\* The radius is the diagonal plus the buffer, truncated, capped.
RadiusFormula ==
    /\ call.radius = Smaller(MetresPerUnit * sqrt(DiagonalSquared) + BUFFER_METRES,
                             RADIUS_CAP)
    /\ call.radius =< RADIUS_CAP

\* The circle reaches the corners: radius >= diagonal / 2.
CoversCell == 4 * RadiusUnits * RadiusUnits >= DiagonalSquared

EquatorCell ==
    /\ RadiusComputed
    /\ call.lat_diff = 1
    /\ call.lon_diff = 1
    /\ call.center_lat = 0

\* C27 as stated: for the cell of 0.01 degrees at the equator the radius is
\* within 10% of half the diagonal: 0.9 * d / 2 =< r =< 1.1 * d / 2.
C27_RadiusNearHalfDiagonal ==
    EquatorCell =>
        /\ 81 * DiagonalSquared =< 400 * RadiusUnits * RadiusUnits
        /\ 400 * RadiusUnits * RadiusUnits =< 121 * DiagonalSquared

\* C27: for the cell of 0.01 degrees at the equator the radius is within
\* 10% of the whole diagonal, which is more than twice half the diagonal.
C27_RadiusNearDiagonal ==
    EquatorCell =>
        /\ 81 * DiagonalSquared =< 100 * RadiusUnits * RadiusUnits
        /\ 100 * RadiusUnits * RadiusUnits =< 121 * DiagonalSquared
        /\ call.radius > MetresPerUnit * sqrt(DiagonalSquared)

C27_Witness ==
    /\ EquatorCell
    /\ call.radius > 1600
    /\ call.radius < 1700

\* C28: after every get_place request the enrichment unit waits
\* DETAILS_DELAY before it completes and releases its slot, also when the
\* request returned no details or failed: a unit that has sent a request
\* completes from the wait only.
C28_DelayAfterEveryRequest ==
    [][\A i \in Ids :
          (enrichPc[i] \in {"request", "cooldown", "details_sleep"}
              /\ enrichPc'[i] = "done")
          => enrichPc[i] = "details_sleep"]_vars

\* C29: when a page request of a cell search fails with an error other than
\* a rate limit, search_by_type_async returns an empty list, also when
\* earlier pages of the cell had returned entities.
C29_ErrorReturnsEmpty ==
    \A c \in Cells :
        (cellRet[c].returned /\ searchOutcome[c] = "error")
            => cellRet[c].results = <<>>

UnitsDone(pcs) == {u \in DOMAIN pcs : pcs[u] = "done"}

\* C30: every unit returns exactly one of from_cache and made_api_call as
\* True; cache_hits + api_calls counts the units that have returned, so at
\* the end of a phase it is the number of units of the phase; a unit is
\* counted as an api call exactly when it has sent a request.
C30_FlagsAndCounters ==
    /\ \A c \in Cells :
          cellRet[c].returned =>
              /\ cellRet[c].from_cache # cellRet[c].made_api_call
              /\ cellRet[c].made_api_call <=> searchReqs[c] >= 1
    /\ \A i \in Ids :
          enrichRet[i].returned =>
              /\ enrichRet[i].from_cache # enrichRet[i].made_api_call
              /\ enrichRet[i].made_api_call <=> getReqs[i] >= 1
    /\ mainPc = "search" =>
          /\ cache_hits + api_calls = Cardinality(UnitsDone(cellPc))
          /\ api_calls = Cardinality({c \in Cells : cellRet[c].made_api_call})
    /\ mainPc \in {"enrich", "done"} =>
          /\ cache_hits + api_calls = Cardinality(UnitsDone(enrichPc))
          /\ api_calls = Cardinality({i \in Ids : enrichRet[i].made_api_call})

C30_Witness ==
    /\ mainPc = "search"
    /\ AllCompleted(cellPc)
    /\ cache_hits >= 1
    /\ api_calls >= 1
    /\ cache_hits + api_calls = NumCells

\* C31: every cell for which the provider returned results up to the
\* pagination cap (max_pages full pages) is counted as hitting the result
\* limit, whatever share of those results carries a website.
C31_FullCellsAreReported ==
    (/\ call.fn = "process_cell_async"
     /\ call.calls = 1
     /\ RawCount(call.pages, 1) = RESULT_LIMIT) => call.limit_hit

\* C32: the boundary polygon is loaded at most once per process; after the
\* first _get_manhattan_polygon call every later call returns the same
\* polygon without calling load_manhattan_boundary again.
C32_PolygonLoadedOnce ==
    call.fn = "point_in_manhattan" =>
        /\ call.loads =< 1
        /\ call.calls >= 1 =>
              /\ call.loads = 1
              /\ call.polygon = call.first
              /\ call.MANHATTAN_POLYGON = call.first

C32_Witness ==
    /\ call.fn = "point_in_manhattan"
    /\ call.calls = MaxPointTests
    /\ call.loads = 1
    /\ call.polygon = call.first
    /\ call.first # NoPolygon

RunFinished ==
    /\ mainPc = "done"
    /\ outputFile.written
    /\ semaphore = MAX_CONCURRENT_DETAILS
    /\ InsideCells = {}
    /\ InsideEnrich = {}

\* C33: within one run no unit retries: a cell unit sends at most max_pages
\* search_nearby requests and an enrichment unit at most one get_place
\* request, a unit that was rate limited or got an error returns without
\* another request, every unit completes and gives its permit back, and
\* the run reaches save_output.
C33_RunTerminates ==
    /\ [](/\ \A c \in Cells : searchReqs[c] =< max_pages
          /\ \A i \in Ids : getReqs[i] =< 1)
    /\ [][/\ mainPc' = "search" =>
               \A c \in Cells :
                   searchOutcome[c] \in {"429", "error", "ok_last"}
                       => searchReqs'[c] = searchReqs[c]
          /\ mainPc' = "enrich" =>
               \A i \in Ids :
                   getReqs[i] = 1 => getReqs'[i] = 1]_vars
    /\ <>RunFinished

C33_Witness ==
    /\ RunFinished
    /\ \E i \in Ids : getReqs[i] = 1 /\ getOutcome[i] = "error"
    /\ \E i \in Ids : getReqs[i] = 1 /\ getOutcome[i] = "429"

\* C34: a unit in its rate-limit cooldown still holds its permit (the free
\* permits never exceed the limit minus the sleeping units), and the
\* cooldown pauses nobody else: while some unit sleeps, every other unit
\* with a pending request can receive its answer, every other unit between
\* two pages can send its next request, and a waiting unit can enter as
\* soon as a permit is free.
CoolingCells == {c \in Cells : cellPc[c] = "cooldown"}

CoolingEnrich == {i \in Ids : enrichPc[i] = "cooldown"}

C34_CooldownIsLocal ==
    /\ mainPc = "search" =>
          /\ semaphore =< MAX_CONCURRENT_GRID_SEARCHES - Cardinality(CoolingCells)
          /\ \A c \in CoolingCells : \A d \in Cells \ {c} :
                /\ cellPc[d] = "request" =>
                      ENABLED SearchResponse(d, "ok_token")
                /\ cellPc[d] = "page_sleep" /\ MorePages(page_num[d]) =>
                      ENABLED (PageSleepDone(d) /\ searchReqs'[d] = searchReqs[d] + 1)
                /\ cellPc[d] = "waiting" /\ semaphore > 0 =>
                      ENABLED EnterCell(d)
    /\ mainPc = "enrich" =>
          /\ semaphore =< MAX_CONCURRENT_DETAILS - Cardinality(CoolingEnrich)
          /\ \A i \in CoolingEnrich : \A j \in Ids \ {i} :
                /\ enrichPc[j] = "request" =>
                      ENABLED DetailsResponse(j, "details")
                /\ enrichPc[j] = "waiting" /\ semaphore > 0 =>
                      ENABLED EnterEnrich(j)

C34_Witness ==
    /\ mainPc = "search"
    /\ \E c \in CoolingCells : \E d \in Cells \ {c} :
          /\ cellPc[d] = "page_sleep"
          /\ MorePages(page_num[d])
          /\ semaphore = MAX_CONCURRENT_GRID_SEARCHES - 2
\* C35: a grid cache file with valid JSON that is not a list is read as the
\* empty list, a detail cache file with valid JSON that is not an object as
\* the empty dict; the unit returns a cache hit, no request is sent for the
\* key, and no step of any run writes the file.
NonListRecord(c) ==
    gridCache[c].kind = "json" /\ gridCache[c].doc.type # "list"

NonDictRecord(i) ==
    detailsCache[i].kind = "json" /\ detailsCache[i].doc.type # "object"

C35_ForeignJsonIsEmptyHit ==
    /\ [](\A c \in Cells : NonListRecord(c) =>
             /\ searchReqs[c] = 0
             /\ gridWrites[c] = 0
             /\ cellPc[c] = "done" =>
                   /\ cached_results[c] = PyList(<<>>)
                   /\ cellRet[c] = Ret(<<>>, TRUE, FALSE))
    /\ [](\A i \in Ids : NonDictRecord(i) =>
             /\ getReqs[i] = 0
             /\ detailsWrites[i] = 0
             /\ enrichPc[i] = "done" =>
                   /\ cached_details[i] = PyDict(EmptyDict)
                   /\ enrichRet[i] = Ret(<<>>, TRUE, FALSE))
    /\ [][/\ \A c \in Cells :
               NonListRecord(c) => gridCache'[c] = gridCache[c]
          /\ \A i \in Ids :
               NonDictRecord(i) => detailsCache'[i] = detailsCache[i]]_vars

C35_Witness ==
    /\ run = MaxRuns
    /\ mainPc = "enrich"
    /\ \E c \in Cells : NonListRecord(c)
    /\ \E i \in Ids :
          /\ NonDictRecord(i)
          /\ enrichPc[i] = "done"
          /\ enrichRet[i] = Ret(<<>>, TRUE, FALSE)
\* C36: in the script variant a cell whose cached list is empty is searched
\* again and its record written again, in the run that cached it and in
\* every later run; a detail fetch that fails or returns nothing writes no
\* record, and the next run that meets the entity fetches it again.
EmptyRecord == JsonFile(JsonList(<<>>))

C36_EmptyCacheIsAMiss ==
    call.fn = "script" =>
        /\ \A c \in ScriptCells :
              (/\ call.cells[c].state # "waiting"
               /\ call.cells[c].cached \in {None, PyList(<<>>)}) =>
                  /\ call.cells[c].requests = 1
                  /\ call.cells[c].writes = 1
        /\ call.run > 1 =>
              \A c \in ScriptCells :
                  (/\ call.before.grid[c] = EmptyRecord
                   /\ call.cells[c].state # "waiting") =>
                      /\ call.cells[c].cached = PyList(<<>>)
                      /\ call.cells[c].requests = 1
                      /\ call.cells[c].writes = 1
        /\ (/\ call.enrich.state = "fetched"
            /\ call.enrich.outcome \in {"nothing", "error"}) =>
                /\ call.enrich.writes = 0
                /\ call.details = NoFile
        /\ (/\ call.run > 1
            /\ call.before.enrich.state = "fetched"
            /\ call.before.enrich.outcome \in {"nothing", "error"}
            /\ call.enrich.state \notin {"none", "waiting"}) =>
                call.enrich.requests = 1

C36_Witness ==
    /\ call.fn = "script"
    /\ call.run > 1
    /\ \E c \in ScriptCells :
          /\ call.before.grid[c] = EmptyRecord
          /\ call.cells[c].requests = 1
    /\ \E c \in ScriptCells : call.cells[c].state = "hit"
    /\ call.before.enrich.state = "fetched"
    /\ call.before.enrich.outcome = "error"
    /\ call.enrich.requests = 1

\* C37: in the script variant a cell keeps a search result exactly when the
\* result has a location inside the cell's half-open bounds; when every
\* cell of the grid has searched, a place inside the bounding box is kept
\* by exactly one cell, and a place on the box's upper latitude or upper
\* longitude edge, or without a location, by none.
Keepers ==
    {c \in ScriptCells :
        call.cells[c].state = "ok" /\ call.cells[c].results # <<>>}

InsideBox(place) ==
    /\ place.has_location
    /\ SCRIPT_BOUNDS.lat_low <= place.latitude
    /\ place.latitude < SCRIPT_BOUNDS.lat_high
    /\ SCRIPT_BOUNDS.lon_low <= place.longitude
    /\ place.longitude < SCRIPT_BOUNDS.lon_high

C37_HalfOpenPartition ==
    call.fn = "script" =>
        /\ \A c \in ScriptCells :
              call.cells[c].state = "ok" =>
                  LET cell == script_generate_grid_cells[c]
                      inside ==
                          /\ call.place.has_location
                          /\ cell.lat_low <= call.place.latitude
                          /\ call.place.latitude < cell.lat_high
                          /\ cell.lon_low <= call.place.longitude
                          /\ call.place.longitude < cell.lon_high
                  IN  call.cells[c].results =
                          IF inside THEN <<call.place>> ELSE <<>>
        /\ Cardinality(Keepers) <= 1
        /\ (\A c \in ScriptCells : call.cells[c].state = "ok") =>
              Cardinality(Keepers) = IF InsideBox(call.place) THEN 1 ELSE 0

C37_Witness ==
    /\ call.fn = "script"
    /\ \A c \in ScriptCells : call.cells[c].state = "ok"
    /\ call.place.has_location
    /\ call.place.latitude = SCRIPT_BOUNDS.lat_low + lat_step
    /\ call.place.longitude = SCRIPT_BOUNDS.lon_low + lon_step
    /\ Cardinality(Keepers) = 1
\* C38: parse_restaurant returns None and fetches nothing for a restaurant
\* without websiteUri; with a cache record younger than the 30-day TTL it
\* returns the cached menu and fetches nothing; it writes the cache only
\* when the parse succeeded, and after a failed discovery or parse the
\* cache file is as it was found and the next call fetches again.
ParseFailed(outcome) == outcome \in {"no_menu_url", "no_content", "raises"}

====
